---- MODULE Spec2Model ----
(***************************************************************************)
(* A model of the shnorky flow orchestrator: the stage scheduler           *)
(* (flows.CalculateStages), the execution of a single build                *)
(* (components.Execute) and the execution of a flow (flows.Execute).       *)
(***************************************************************************)
EXTENDS Integers, Sequences, FiniteSets, TLC

\* ---------------------------------------------------------------------------
\* Bounds of the model
\* ---------------------------------------------------------------------------

\* Number of step names a flow specification is drawn from.
MaxSteps == 3

\* Total number of entries of all dependency lists of a flow specification.
MaxDeps == 3

StepName == <<"a", "b", "c", "d", "e", "f">>

StepNames == {StepName[i] : i \in 1..MaxSteps}

\* ---------------------------------------------------------------------------
\* Flow specifications (flows.FlowSpecification)
\* ---------------------------------------------------------------------------

ErrNil == "nil"

ErrCyclicDependency == "Cyclic dependency detected in given flow"

EmptyMap == [x \in {} |-> <<>>]

MapPut(m, k, v) == [x \in (DOMAIN m) \cup {k} |-> IF x = k THEN v ELSE m[x]]

Restrict(m, keys) == [x \in (DOMAIN m) \cap keys |-> m[x]]

\* The iteration orders of a Go map: every permutation of the step names.
Orders ==
    {o \in [1..MaxSteps -> StepNames] : \A i, j \in 1..MaxSteps : i # j => o[i] # o[j]}

\* The keys of a map in the order in which one iteration visits them.
Iterate(keys, ord) ==
    LET in(x) == x \in keys
    IN  SelectSeq(ord, in)

\* The orders in which an iteration may visit the keys of a map.
IterationOrders(keys) == {Iterate(keys, o) : o \in Orders}

\* CalculateStages without the filtering of the surviving dependencies.
RECURSIVE CalculateStages_ForgetDeps(_, _)
CalculateStages_ForgetDeps(specification, ord) ==
    IF DOMAIN specification.Steps = {}
    THEN [stages |-> <<>>, err |-> ErrNil]
    ELSE
      LET Steps == specification.Steps
          Dependencies == specification.Dependencies
          initialSteps ==
              {step \in DOMAIN Steps :
                  (step \notin DOMAIN Dependencies) \/ (Len(Dependencies[step]) = 0)}
      IN
        IF initialSteps = {}
        THEN [stages |-> <<>>, err |-> ErrCyclicDependency]
        ELSE
          LET nextSteps == Restrict(Steps, (DOMAIN Steps) \ initialSteps)
              nextSpecification ==
                  [Steps |-> nextSteps, Dependencies |-> [step \in DOMAIN nextSteps |-> <<>>]]
              downstream == CalculateStages_ForgetDeps(nextSpecification, ord)
          IN  [stages |-> <<Iterate(initialSteps, ord)>> \o downstream.stages, err |-> ErrNil]

\* CalculateStages taking only the steps without a dependencies entry as
\* initial steps (the test of an empty list is missing).
RECURSIVE CalculateStages_NoEmptyList(_, _)
CalculateStages_NoEmptyList(specification, ord) ==
    IF DOMAIN specification.Steps = {}
    THEN [stages |-> <<>>, err |-> ErrNil]
    ELSE
      LET Steps == specification.Steps
          Dependencies == specification.Dependencies
          DepsOf(step) == IF step \in DOMAIN Dependencies THEN Dependencies[step] ELSE <<>>
          initialSteps == {step \in DOMAIN Steps : step \notin DOMAIN Dependencies}
      IN
        IF initialSteps = {}
        THEN [stages |-> <<>>, err |-> ErrCyclicDependency]
        ELSE
          LET nextSteps == Restrict(Steps, (DOMAIN Steps) \ initialSteps)
              surviving(dep) == dep \notin initialSteps
              nextDependencies ==
                  [step \in DOMAIN nextSteps |-> SelectSeq(DepsOf(step), surviving)]
              nextSpecification == [Steps |-> nextSteps, Dependencies |-> nextDependencies]
              downstream == CalculateStages_NoEmptyList(nextSpecification, ord)
          IN
            IF downstream.err # ErrNil
            THEN [stages |-> <<>>, err |-> downstream.err]
            ELSE [stages |-> <<Iterate(initialSteps, ord)>> \o downstream.stages, err |-> ErrNil]

\* CalculateStages returning the stages computed so far with the error.
RECURSIVE CalculateStages_KeepPartial(_, _)
CalculateStages_KeepPartial(specification, ord) ==
    IF DOMAIN specification.Steps = {}
    THEN [stages |-> <<>>, err |-> ErrNil]
    ELSE
      LET Steps == specification.Steps
          Dependencies == specification.Dependencies
          DepsOf(step) == IF step \in DOMAIN Dependencies THEN Dependencies[step] ELSE <<>>
          initialSteps ==
              {step \in DOMAIN Steps :
                  (step \notin DOMAIN Dependencies) \/ (Len(Dependencies[step]) = 0)}
      IN
        IF initialSteps = {}
        THEN [stages |-> <<>>, err |-> ErrCyclicDependency]
        ELSE
          LET nextSteps == Restrict(Steps, (DOMAIN Steps) \ initialSteps)
              surviving(dep) == dep \notin initialSteps
              nextDependencies ==
                  [step \in DOMAIN nextSteps |-> SelectSeq(DepsOf(step), surviving)]
              nextSpecification == [Steps |-> nextSteps, Dependencies |-> nextDependencies]
              downstream == CalculateStages_KeepPartial(nextSpecification, ord)
          IN  [stages |-> <<Iterate(initialSteps, ord)>> \o downstream.stages,
               err |-> downstream.err]

\* CalculateStages peeling off one initial step at a time.
RECURSIVE CalculateStages_OneAtATime(_, _)
CalculateStages_OneAtATime(specification, ord) ==
    IF DOMAIN specification.Steps = {}
    THEN [stages |-> <<>>, err |-> ErrNil]
    ELSE
      LET Steps == specification.Steps
          Dependencies == specification.Dependencies
          DepsOf(step) == IF step \in DOMAIN Dependencies THEN Dependencies[step] ELSE <<>>
          initialSteps ==
              {step \in DOMAIN Steps :
                  (step \notin DOMAIN Dependencies) \/ (Len(Dependencies[step]) = 0)}
      IN
        IF initialSteps = {}
        THEN [stages |-> <<>>, err |-> ErrCyclicDependency]
        ELSE
          LET first == Iterate(initialSteps, ord)[1]
              nextSteps == Restrict(Steps, (DOMAIN Steps) \ {first})
              surviving(dep) == dep # first
              nextDependencies ==
                  [step \in DOMAIN nextSteps |-> SelectSeq(DepsOf(step), surviving)]
              nextSpecification == [Steps |-> nextSteps, Dependencies |-> nextDependencies]
              downstream == CalculateStages_OneAtATime(nextSpecification, ord)
          IN
            IF downstream.err # ErrNil
            THEN [stages |-> <<>>, err |-> downstream.err]
            ELSE [stages |-> <<<<first>>>> \o downstream.stages, err |-> ErrNil]

\* CalculateStages taking as initial only the steps that are no key of the
\* dependencies, and not those whose list of dependencies is empty.
RECURSIVE CalculateStages_MissingKeyOnly(_, _)
CalculateStages_MissingKeyOnly(specification, ord) ==
    IF DOMAIN specification.Steps = {}
    THEN [stages |-> <<>>, err |-> ErrNil]
    ELSE
      LET Steps == specification.Steps
          Dependencies == specification.Dependencies
          DepsOf(step) == IF step \in DOMAIN Dependencies THEN Dependencies[step] ELSE <<>>
          initialSteps == {step \in DOMAIN Steps : step \notin DOMAIN Dependencies}
      IN
        IF initialSteps = {}
        THEN [stages |-> <<>>, err |-> ErrCyclicDependency]
        ELSE
          LET currentStage == Iterate(initialSteps, ord)
              nextSteps == Restrict(Steps, (DOMAIN Steps) \ initialSteps)
              surviving(dep) == dep \notin initialSteps
              nextDependencies ==
                  [step \in DOMAIN nextSteps |-> SelectSeq(DepsOf(step), surviving)]
              nextSpecification == [Steps |-> nextSteps, Dependencies |-> nextDependencies]
              downstream == CalculateStages_MissingKeyOnly(nextSpecification, ord)
          IN
            IF downstream.err # ErrNil
            THEN [stages |-> <<>>, err |-> downstream.err]
            ELSE [stages |-> <<currentStage>> \o downstream.stages, err |-> ErrNil]

RECURSIVE CalculateStages(_, _)
CalculateStages(specification, ord) ==
    IF DOMAIN specification.Steps = {}
    THEN [stages |-> <<>>, err |-> ErrNil]
    ELSE
      LET Steps == specification.Steps
          Dependencies == specification.Dependencies
          DepsOf(step) == IF step \in DOMAIN Dependencies THEN Dependencies[step] ELSE <<>>
          initialSteps ==
              {step \in DOMAIN Steps :
                  (step \notin DOMAIN Dependencies) \/ (Len(Dependencies[step]) = 0)}
      IN
        IF initialSteps = {}
        THEN [stages |-> <<>>, err |-> ErrCyclicDependency]
        ELSE
          LET currentStage == Iterate(initialSteps, ord)
              nextSteps == Restrict(Steps, (DOMAIN Steps) \ initialSteps)
              surviving(dep) == dep \notin initialSteps
              nextDependencies ==
                  [step \in DOMAIN nextSteps |-> SelectSeq(DepsOf(step), surviving)]
              nextSpecification == [Steps |-> nextSteps, Dependencies |-> nextDependencies]
              downstream == CalculateStages(nextSpecification, ord)
          IN
            IF downstream.err # ErrNil
            THEN [stages |-> <<>>, err |-> downstream.err]
            ELSE [stages |-> <<currentStage>> \o downstream.stages, err |-> ErrNil]

\* The validation without the inner loop over the dependencies of a step.
Validated_KeysOnly(rawSpecification) ==
    /\ \A step \in DOMAIN rawSpecification.Steps : rawSpecification.Steps[step] # ""
    /\ \A step \in DOMAIN rawSpecification.Dependencies :
          step \in DOMAIN rawSpecification.Steps

\* The validation of MaterializeFlowSpecification: every step has a component
\* and every dependencies key and value is a step.
Validated(rawSpecification) ==
    /\ \A step \in DOMAIN rawSpecification.Steps : rawSpecification.Steps[step] # ""
    /\ \A step \in DOMAIN rawSpecification.Dependencies :
          /\ step \in DOMAIN rawSpecification.Steps
          /\ \A i \in 1..Len(rawSpecification.Dependencies[step]) :
                rawSpecification.Dependencies[step][i] \in DOMAIN rawSpecification.Steps

\* ---------------------------------------------------------------------------
\* Inputs: bounded flow specifications.  The steps are the first n step
\* names; the dependencies mention these and at most one name that is no
\* step, and their lists hold at most MaxDeps entries together.
\* ---------------------------------------------------------------------------

ComponentOf(step) ==
    IF step \in {"a", "c", "e"} THEN "c1" ELSE "c2"

FirstNames(n) == {StepName[i] : i \in 1..n}

Min(x, y) == IF x <= y THEN x ELSE y

NameIndex(name) == CHOOSE i \in 1..Len(StepName) : StepName[i] = name

\* A list of <<step, dependency>> entries grouped by step, in the order of
\* the step names: one such list for every choice of dependency lists.
Grouped(entries) ==
    \A i \in 1..(Len(entries) - 1) :
        NameIndex(entries[i][1]) <= NameIndex(entries[i + 1][1])

EntryKeys(entries) == {entries[i][1] : i \in 1..Len(entries)}

\* The dependencies map with the given keys whose lists hold the entries.
DependenciesOf(entries, keys) ==
    [k \in keys |->
        LET mine(e) == e[1] = k
            own == SelectSeq(entries, mine)
        IN  [i \in 1..Len(own) |-> own[i][2]]]

VARIABLES
    flowSpecification,  \* the flow specification handed to the stage scheduler
    result,         \* what CalculateStages returned
    pc,             \* position of the caller of the stage scheduler
    components,     \* state database: rows of the components table
    builds,         \* state database: rows of the builds table
    executions,     \* state database: rows of the executions table
    specFiles,      \* file system: component id -> its specification file
    containers,     \* container engine: container name -> container
    flows,          \* state database: rows of the flows table
    nextID,         \* source of fresh execution ids (uuid.NewRandom)
    exec,           \* the activation of components.Execute
    flow,           \* the activation of flows.Execute
    clock,          \* the time time.Now returns, in ticks
    images,         \* container engine: the tags of the images built
    stateDir        \* file system: what stands at the state directory path

vars == <<flowSpecification, result, pc, components, builds, executions, specFiles,
          containers, flows, nextID, exec, flow, clock, images, stateDir>>

\* The stage scheduler's caller, and the state database with the file system.
stageVars == <<flowSpecification, result, pc>>

storeVars == <<components, builds, executions, specFiles, flows>>

\* The clock, the images of the container engine and the state directory.
registryVars == <<clock, images, stateDir>>

\* ---------------------------------------------------------------------------
\* Component specifications and their materialization
\* (strings are sequences of characters)
\* ---------------------------------------------------------------------------

SpecialPrefixEnv == <<"e", "n", "v", ":">>

SpecialPrefixUsername == <<"u", "s", "e", "r", ":">>

HasPrefix(value, prefix) ==
    Len(value) >= Len(prefix) /\ SubSeq(value, 1, Len(prefix)) = prefix

StripPrefix(value, prefix) == SubSeq(value, Len(prefix) + 1, Len(value))

\* The environment of the shnorky process and the user database of the host.
HostEnv == [name \in {<<"H">>} |-> <<"h">>]

HostUsers == [name \in {<<"r">>} |-> [Uid |-> <<"1">>, Gid |-> <<"2">>]]

Getenv(name) == IF name \in DOMAIN HostEnv THEN HostEnv[name] ELSE <<>>

MaterializeEnv(rawValue) ==
    IF HasPrefix(rawValue, SpecialPrefixEnv)
    THEN Getenv(StripPrefix(rawValue, SpecialPrefixEnv))
    ELSE rawValue

ErrUnknownUser == "user: unknown user"

MaterializeUsername(rawValue) ==
    IF HasPrefix(rawValue, SpecialPrefixUsername)
    THEN LET name == StripPrefix(rawValue, SpecialPrefixUsername)
         IN  IF name \in DOMAIN HostUsers
             THEN [value |-> HostUsers[name].Uid \o <<":">> \o HostUsers[name].Gid,
                   err |-> ErrNil]
             ELSE [value |-> rawValue, err |-> ErrUnknownUser]
    ELSE [value |-> rawValue, err |-> ErrNil]

MaterializeRunSpecification(rawSpecification) ==
    LET materializedUser == MaterializeUsername(rawSpecification.User)
    IN  IF materializedUser.err # ErrNil
        THEN [spec |-> rawSpecification, err |-> "Could not materialize user"]
        ELSE [spec |->
                [Env |-> [key \in DOMAIN rawSpecification.Env |->
                             MaterializeEnv(rawSpecification.Env[key])],
                 Mountpoints |-> rawSpecification.Mountpoints,
                 User |-> materializedUser.value],
              err |-> ErrNil]

MaterializeComponentSpecification(rawSpecification) ==
    LET run == MaterializeRunSpecification(rawSpecification.Run)
    IN  IF run.err # ErrNil
        THEN [spec |-> rawSpecification, err |-> "Could not materialize run specification"]
        ELSE [spec |-> [Run |-> run.spec], err |-> ErrNil]

ValidMountTypes == {"file", "dir"}

ErrInvalidMountType == "Invalid mount type in component mount specification"

\* A specification file that cannot be opened or decoded.
NoFile == [Missing |-> TRUE]

ZeroComponentSpecification ==
    [Run |-> [Env |-> EmptyMap, Mountpoints |-> <<>>, User |-> <<>>]]

\* components.ReadSingleSpecification applied to the content of a file.
ReadComponentSpecification(file) ==
    IF file = NoFile
    THEN [spec |-> ZeroComponentSpecification, err |-> "decode error"]
    ELSE IF \E i \in 1..Len(file.Run.Mountpoints) :
                file.Run.Mountpoints[i].MountType \notin ValidMountTypes
         THEN [spec |-> file, err |-> ErrInvalidMountType]
         ELSE [spec |-> file, err |-> ErrNil]

\* ---------------------------------------------------------------------------
\* The state database (components/state.go)
\* ---------------------------------------------------------------------------

\* Times (time.Time) are counted in ticks; the tables hold created_at in
\* whole seconds (Time.Unix), and a selected row gives the time at the start
\* of its second (time.Unix(createdAt, 0)).
TicksPerSecond == 2

Unix(time) == time \div TicksPerSecond

TimeUnix(seconds) == seconds * TicksPerSecond

ErrBuildNotFound == "Could not find the specified build"

ErrComponentNotFound == "Could not find the specified component"

\* Build ids are the tuples <<DockerImagePrefix, component id, created_at>>
\* that GenerateBuildMetadata formats; the empty id is the empty tuple.
DockerImagePrefix == "shnorky/"

EmptyBuildID == <<>>

GenerateBuildID(componentID, createdAt) == <<DockerImagePrefix, componentID, createdAt>>

ZeroBuildMetadata == [ID |-> EmptyBuildID, ComponentID |-> "", CreatedAt |-> 0]

ZeroExecutionMetadata ==
    [ID |-> 0, BuildID |-> EmptyBuildID, ComponentID |-> "", FlowID |-> ""]

ZeroComponentMetadata ==
    [ID |-> "", ComponentType |-> "", ComponentPath |-> "", SpecificationPath |-> "",
     CreatedAt |-> 0]

\* The metadata scanned from a row: its columns, created_at as a time.
Scanned(row) == [row EXCEPT !.CreatedAt = TimeUnix(@)]

\* The row holding the values of a metadata record: created_at in seconds.
RowOf(metadata) == [metadata EXCEPT !.CreatedAt = Unix(@)]

\* SelectBuildByID returning the first row of the table whatever its id.
SelectBuildByID_AnyRow(rows, id) ==
    IF rows # {}
    THEN [build |-> Scanned(CHOOSE row \in rows : \A other \in rows :
                               other.CreatedAt <= row.CreatedAt), err |-> ErrNil]
    ELSE [build |-> ZeroBuildMetadata, err |-> ErrBuildNotFound]

SelectBuildByID(rows, id) ==
    IF \E row \in rows : row.ID = id
    THEN [build |-> Scanned(CHOOSE row \in rows : row.ID = id), err |-> ErrNil]
    ELSE [build |-> ZeroBuildMetadata, err |-> ErrBuildNotFound]

SelectComponentByID(rows, id) ==
    IF \E row \in rows : row.ID = id
    THEN [component |-> Scanned(CHOOSE row \in rows : row.ID = id), err |-> ErrNil]
    ELSE [component |-> ZeroComponentMetadata, err |-> ErrComponentNotFound]

\* An INSERT into a table whose id column is its primary key.
ErrConstraint == "UNIQUE constraint failed"

\* An INSERT that replaces the row of the same id.
Insert_Replace(rows, metadata) ==
    [rows |-> {row \in rows : row.ID # metadata.ID} \cup {RowOf(metadata)},
     err |-> IF \E row \in rows : row.ID = metadata.ID THEN ErrConstraint ELSE ErrNil]

\* InsertComponent, InsertBuild and InsertFlow: the transaction commits the
\* new row, or is rolled back when the INSERT statement fails.
Insert(rows, metadata) ==
    IF \E row \in rows : row.ID = metadata.ID
    THEN [rows |-> rows, err |-> ErrConstraint]
    ELSE [rows |-> rows \cup {RowOf(metadata)}, err |-> ErrNil]

\* The DELETE statement without its WHERE clause.
DeleteComponentByID_All(rows, id) == {}

DeleteComponentByID(rows, id) == {row \in rows : row.ID # id}

\* The statement ordered by created_at ASC.
MostRecentBuilds_Oldest(rows, componentID) ==
    {row \in rows :
        /\ row.ComponentID = componentID
        /\ \A other \in rows :
              other.ComponentID = componentID => row.CreatedAt <= other.CreatedAt}

\* The rows the statement selectMostRecentBuildForComponent may return:
\* a build of the component with the greatest created_at.
MostRecentBuilds(rows, componentID) ==
    {row \in rows :
        /\ row.ComponentID = componentID
        /\ \A other \in rows :
              other.ComponentID = componentID => other.CreatedAt <= row.CreatedAt}

\* SelectMostRecentBuildForComponent: the outcomes of the query.
SelectMostRecentBuildForComponent(rows, componentID) ==
    IF MostRecentBuilds(rows, componentID) = {}
    THEN {[build |-> ZeroBuildMetadata, err |-> ErrBuildNotFound]}
    ELSE {[build |-> Scanned(row), err |-> ErrNil] :
             row \in MostRecentBuilds(rows, componentID)}

\* ---------------------------------------------------------------------------
\* The state directory (state/init.go)
\* ---------------------------------------------------------------------------

\* The tables of the schema createTables.
TableNames == {"components", "flows", "flow_components", "builds", "executions"}

\* What os.Stat finds at the state directory path: nothing, a file, or a
\* directory holding a store with the given tables.
NoObject == [kind |-> "none", tables |-> {}]

PlainFile == [kind |-> "file", tables |-> {}]

Directory(tables) == [kind |-> "directory", tables |-> tables]

ErrStateDirectoryAlreadyExists == "The given state directory already exists"

\* What may go wrong after the stat: os.MkdirAll fails, or the statement
\* that creates the tables fails in the directory just made.
InitFailures == {"none", "mkdir", "create tables"}

ErrMkdir == "mkdir: permission denied"

ErrCreateTables == "Error creating tables in fresh state database"

\* state.Init making its store whatever stands at the path.
StateInit_Overwrite(object, failure) ==
    IF failure = "mkdir"
    THEN [object |-> object, err |-> ErrMkdir]
    ELSE IF failure = "create tables"
         THEN [object |-> Directory({}), err |-> ErrCreateTables]
         ELSE [object |-> Directory(TableNames), err |-> ErrNil]

\* state.Init: the object at the path afterwards and the error returned.
StateInit(object, failure) ==
    IF object.kind # "none"
    THEN [object |-> object, err |-> ErrStateDirectoryAlreadyExists]
    ELSE IF failure = "mkdir"
         THEN [object |-> object, err |-> ErrMkdir]
         ELSE IF failure = "create tables"
              THEN [object |-> Directory({}), err |-> ErrCreateTables]
              ELSE [object |-> Directory(TableNames), err |-> ErrNil]

\* ---------------------------------------------------------------------------
\* Component metadata (components/build.go, second file)
\* ---------------------------------------------------------------------------

ComponentTypes == {"service", "task"}

ErrInvalidComponentType == "Invalid ComponentType"

ErrEmptyID == "ID must be a non-empty string"

ErrEmptyComponentPath == "ComponentPath must be a non-empty string"

DefaultSpecificationFileName == "component.json"

\* path.Join of a directory and a file name, neither with a separator at
\* its end.
PathJoin(dir, name) == dir \o "/" \o name

\* GenerateComponentMetadata checking the component type before the path.
GenerateComponentMetadata_TypeFirst(id, componentType, componentPath, specificationPath, createdAt) ==
    IF id = ""
    THEN [component |-> ZeroComponentMetadata, err |-> ErrEmptyID]
    ELSE IF componentType \notin ComponentTypes
    THEN [component |-> ZeroComponentMetadata, err |-> ErrInvalidComponentType]
    ELSE IF componentPath = ""
    THEN [component |-> ZeroComponentMetadata, err |-> ErrEmptyComponentPath]
    ELSE [component |->
            [ID |-> id, ComponentType |-> componentType, ComponentPath |-> componentPath,
             SpecificationPath |->
                 IF specificationPath = ""
                 THEN PathJoin(componentPath, DefaultSpecificationFileName)
                 ELSE specificationPath,
             CreatedAt |-> createdAt],
          err |-> ErrNil]

\* GenerateComponentMetadata; createdAt is the value of time.Now.
GenerateComponentMetadata(id, componentType, componentPath, specificationPath, createdAt) ==
    IF id = ""
    THEN [component |-> ZeroComponentMetadata, err |-> ErrEmptyID]
    ELSE IF componentPath = ""
    THEN [component |-> ZeroComponentMetadata, err |-> ErrEmptyComponentPath]
    ELSE IF componentType \notin ComponentTypes
    THEN [component |-> ZeroComponentMetadata, err |-> ErrInvalidComponentType]
    ELSE [component |->
            [ID |-> id, ComponentType |-> componentType, ComponentPath |-> componentPath,
             SpecificationPath |->
                 IF specificationPath = ""
                 THEN PathJoin(componentPath, DefaultSpecificationFileName)
                 ELSE specificationPath,
             CreatedAt |-> createdAt],
          err |-> ErrNil]

\* AddComponent: the metadata and error returned, and the components table.
AddComponent(rows, id, componentType, componentPath, specificationPath, createdAt) ==
    LET generated == GenerateComponentMetadata(id, componentType, componentPath,
                                               specificationPath, createdAt)
        inserted == Insert(rows, generated.component)
    IN  IF generated.err # ErrNil
        THEN [component |-> generated.component, err |-> generated.err, rows |-> rows]
        ELSE [component |-> generated.component, err |-> inserted.err,
              rows |-> inserted.rows]

\* ---------------------------------------------------------------------------
\* Builds (components/build.go, first file)
\* ---------------------------------------------------------------------------

ErrEmptyComponentID == "ComponentID must be a non-empty string"

\* The container engine before any image is built.
NoImages == {}

\* The tag of a build with the part after its colon replaced by latest: the
\* prefix and the component id.
LatestTag(buildID) == <<buildID[1], buildID[2]>>

\* GenerateBuildMetadata; createdAt is the value of time.Now.
GenerateBuildMetadata(componentID, createdAt) ==
    IF componentID = ""
    THEN [build |-> ZeroBuildMetadata, err |-> ErrEmptyComponentID]
    ELSE [build |-> [ID |-> GenerateBuildID(componentID, Unix(createdAt)),
                     ComponentID |-> componentID, CreatedAt |-> createdAt],
          err |-> ErrNil]

\* What the file system and the container engine do with a build: the stat
\* of the .dockerignore file fails, the file cannot be read, the context
\* cannot be archived, the engine refuses the build, or the image is built.
BuildOutcomes ==
    {"dockerignore stat error", "dockerignore read error", "archive error", "build error",
     "built"}

\* Line 77 takes the message of err, which is nil there.
PanicNilError == "panic: nil pointer dereference"

\* CreateBuild: the metadata and error returned, the builds table and the
\* images of the engine.
CreateBuild(componentRows, buildRows, tags, files, componentID, createdAt, outcome) ==
    LET selected == SelectComponentByID(componentRows, componentID)
        generated == GenerateBuildMetadata(selected.component.ID, createdAt)
        path == selected.component.SpecificationPath
        read == ReadComponentSpecification(files[path])
        inserted == Insert(buildRows, generated.build)
        built == tags \cup {generated.build.ID, LatestTag(generated.build.ID)}
        failed(build, err) ==
            [build |-> build, err |-> err, builds |-> buildRows, images |-> tags]
    IN  IF selected.err # ErrNil
        THEN failed(ZeroBuildMetadata, selected.err)
        ELSE IF generated.err # ErrNil
        THEN failed(ZeroBuildMetadata, generated.err)
        ELSE IF path \notin DOMAIN files
        THEN failed(generated.build, "Could not open specification file")
        ELSE IF read.err # ErrNil
        THEN failed(generated.build, "Could not parse specification from specification file")
        ELSE IF outcome = "dockerignore stat error"
        THEN failed(ZeroBuildMetadata, PanicNilError)
        ELSE IF outcome = "dockerignore read error"
        THEN failed(generated.build, "Error opening dockerignore file")
        ELSE IF outcome = "archive error"
        THEN failed(generated.build, "Could not archive context")
        ELSE IF outcome = "build error"
        THEN failed(generated.build, "Error building image")
        ELSE IF inserted.err # ErrNil
        THEN [build |-> generated.build,
              err |-> "Error inserting build metadata into state database",
              builds |-> buildRows, images |-> built]
        ELSE [build |-> generated.build, err |-> ErrNil, builds |-> inserted.rows,
              images |-> built]

\* ---------------------------------------------------------------------------
\* components.Execute
\* ---------------------------------------------------------------------------

ErrEmptyBuildID == "BuildID must be a non-empty string"

GenerateExecutionMetadata(build, flowID, id) ==
    IF build.ID = EmptyBuildID
    THEN [metadata |-> ZeroExecutionMetadata, err |-> ErrEmptyBuildID]
    ELSE IF build.ComponentID = ""
         THEN [metadata |-> ZeroExecutionMetadata, err |-> ErrEmptyComponentID]
         ELSE [metadata |->
                 [ID |-> id, BuildID |-> build.ID, ComponentID |-> build.ComponentID,
                  FlowID |-> flowID],
               err |-> ErrNil]

\* inverseMounts: container path -> index of the last mount with that target.
InverseMounts(mounts) ==
    [target \in {mounts[i].Target : i \in 1..Len(mounts)} |->
        CHOOSE i \in 1..Len(mounts) :
            /\ mounts[i].Target = target
            /\ \A j \in 1..Len(mounts) : mounts[j].Target = target => j <= i]

\* The run-time panics of an assignment past the end of containerConfig.Env
\* and of hostConfig.Mounts.
PanicEnv == "index out of range: containerConfig.Env"

PanicMounts == "index out of range: hostConfig.Mounts"

\* The loop over the mountpoints of the specification, from mountpoint j on,
\* with currentMount mounts written to hostMounts (a list of
\* Len(inverseMounts) entries) so far.
RECURSIVE MountLoop(_, _, _, _, _)
MountLoop(mountpoints, mounts, j, currentMount, hostMounts) ==
    IF j > Len(mountpoints)
    THEN [outcome |-> "ok", err |-> ErrNil, Mounts |-> hostMounts]
    ELSE
      LET inverseMounts == InverseMounts(mounts)
          mountpoint == mountpoints[j]
          ok == mountpoint.Mountpoint \in DOMAIN inverseMounts
      IN
        IF mountpoint.Required /\ ~ok
        THEN [outcome |-> "error", err |-> "No mount provided for required mountpoint",
              Mounts |-> hostMounts]
        ELSE IF ~ok
        THEN MountLoop(mountpoints, mounts, j + 1, currentMount, hostMounts)
        ELSE IF currentMount > Cardinality(DOMAIN inverseMounts)
        THEN [outcome |-> "error", err |-> "Too many mounts in host configuration",
              Mounts |-> hostMounts]
        ELSE IF currentMount + 1 > Len(hostMounts)
        THEN [outcome |-> "panic", err |-> PanicMounts, Mounts |-> hostMounts]
        ELSE
          LET mountsIndex == inverseMounts[mountpoint.Mountpoint]
              mount == [Type |-> mounts[mountsIndex].Method,
                        Source |-> mounts[mountsIndex].Source,
                        Target |-> mountpoint.Mountpoint]
          IN  MountLoop(mountpoints, mounts, j + 1, currentMount + 1,
                        [hostMounts EXCEPT ![currentMount + 1] = mount])

ZeroMount == [Type |-> "", Source |-> <<>>, Target |-> ""]

\* Lines 95-144 of components.Execute: the container configuration and the
\* host configuration computed from the materialized specification.
ConfigureContainer(specification, buildMetadata, mounts, env) ==
    LET runEnv == specification.Run.Env
        finalEnv == [key \in (DOMAIN runEnv) \cup (DOMAIN env) |->
                        IF key \in DOMAIN env THEN env[key] ELSE runEnv[key]]
        inverseMounts == InverseMounts(mounts)
        loop == MountLoop(specification.Run.Mountpoints, mounts, 1, 0,
                          [i \in 1..Cardinality(DOMAIN inverseMounts) |-> ZeroMount])
        config == [Image |-> buildMetadata.ID, Env |-> finalEnv,
                   User |-> specification.Run.User, Mounts |-> loop.Mounts]
    IN
      IF Cardinality(DOMAIN finalEnv) > Cardinality(DOMAIN runEnv)
      THEN [outcome |-> "panic", err |-> PanicEnv, config |-> config]
      ELSE [outcome |-> loop.outcome, err |-> loop.err, config |-> config]

IdleExec ==
    [pc |-> "idle", buildID |-> EmptyBuildID, flowID |-> "", mounts |-> <<>>, env |-> EmptyMap,
     buildMetadata |-> ZeroBuildMetadata, executionMetadata |-> ZeroExecutionMetadata,
     config |-> <<>>, err |-> ErrNil, entryExecutions |-> {}]

\* A call of components.Execute; entryExecutions records the executions table
\* at the time of the call.
CallExecute(buildID, flowID, mounts, env, rows) ==
    [IdleExec EXCEPT !.pc = "selectBuild", !.buildID = buildID, !.flowID = flowID,
                     !.mounts = mounts, !.env = env, !.entryExecutions = rows]

ReturnExecute(frame, metadata, err) ==
    [frame EXCEPT !.pc = "returned", !.executionMetadata = metadata, !.err = err]

\* Lines 68-76: the build row and the execution metadata.
ExecuteSelectBuild ==
    /\ exec.pc = "selectBuild"
    /\ LET selected == SelectBuildByID(builds, exec.buildID)
           generated == GenerateExecutionMetadata(selected.build, exec.flowID, nextID)
       IN  IF selected.err # ErrNil
           THEN /\ exec' = ReturnExecute(exec, ZeroExecutionMetadata, selected.err)
                /\ UNCHANGED nextID
           ELSE IF generated.err # ErrNil
           THEN /\ exec' = ReturnExecute(exec, ZeroExecutionMetadata, generated.err)
                /\ UNCHANGED nextID
           ELSE /\ exec' = [exec EXCEPT !.pc = "selectComponent",
                                        !.buildMetadata = selected.build,
                                        !.executionMetadata = generated.metadata]
                /\ nextID' = nextID + 1
    /\ UNCHANGED <<registryVars, stageVars, storeVars, containers, flow>>

\* Lines 78-144: the component row, its specification and the configuration
\* of the container.
ExecuteConfigure ==
    /\ exec.pc = "selectComponent"
    /\ LET selected == SelectComponentByID(components, exec.buildMetadata.ComponentID)
           read == ReadComponentSpecification(specFiles[selected.component.SpecificationPath])
           materialized == MaterializeComponentSpecification(read.spec)
           configured == ConfigureContainer(materialized.spec, exec.buildMetadata,
                                            exec.mounts, exec.env)
       IN  IF selected.err # ErrNil
           THEN exec' = ReturnExecute(exec, exec.executionMetadata, selected.err)
           ELSE IF read.err # ErrNil
           THEN exec' = ReturnExecute(exec, exec.executionMetadata,
                                      "Could not open specification file")
           ELSE IF materialized.err # ErrNil
           THEN exec' = ReturnExecute(exec, exec.executionMetadata,
                                      "Could not materialize component specification")
           ELSE IF configured.outcome = "panic"
           THEN exec' = [exec EXCEPT !.pc = "panic", !.err = configured.err]
           ELSE IF configured.outcome = "error"
           THEN exec' = ReturnExecute(exec, exec.executionMetadata, configured.err)
           ELSE exec' = [exec EXCEPT !.pc = "create", !.config = configured.config]
    /\ UNCHANGED <<registryVars, stageVars, storeVars, containers, nextID, flow>>

\* ContainerCreate whose error is not checked: the execution is inserted
\* whether or not the container was created.
ExecuteContainerCreate_Unchecked ==
    /\ exec.pc = "create"
    /\ \/ containers' = MapPut(containers, exec.executionMetadata.ID,
                               [state |-> "created", exitCode |-> 0, config |-> exec.config])
       \/ UNCHANGED containers
    /\ exec' = [exec EXCEPT !.pc = "insert"]
    /\ UNCHANGED <<registryVars, stageVars, storeVars, nextID, flow>>

\* Lines 146-149: the container engine creates the container (named by the
\* execution id) or fails.
ExecuteContainerCreate ==
    /\ exec.pc = "create"
    /\ \/ /\ containers' = MapPut(containers, exec.executionMetadata.ID,
                                  [state |-> "created", exitCode |-> 0,
                                   config |-> exec.config])
          /\ exec' = [exec EXCEPT !.pc = "insert"]
       \/ /\ exec' = ReturnExecute(exec, exec.executionMetadata, "Error creating container")
          /\ UNCHANGED containers
    /\ UNCHANGED <<registryVars, stageVars, storeVars, nextID, flow>>

\* InsertExecution whose error is not checked: the container is started
\* whether or not the row was committed.
ExecuteInsertExecution_Unchecked ==
    /\ exec.pc = "insert"
    /\ \/ /\ \A row \in executions : row.ID # exec.executionMetadata.ID
          /\ executions' = executions \cup {exec.executionMetadata}
       \/ UNCHANGED executions
    /\ exec' = [exec EXCEPT !.pc = "start"]
    /\ UNCHANGED <<registryVars,
                   stageVars, components, builds, specFiles, flows, containers, nextID,
                   flow>>

\* Lines 151-154 and InsertExecution: the transaction commits or fails.
ExecuteInsertExecution ==
    /\ exec.pc = "insert"
    /\ \/ /\ \A row \in executions : row.ID # exec.executionMetadata.ID
          /\ executions' = executions \cup {exec.executionMetadata}
          /\ exec' = [exec EXCEPT !.pc = "start"]
       \/ /\ exec' = ReturnExecute(exec, exec.executionMetadata,
                                    "Error inserting execution into state database")
          /\ UNCHANGED executions
    /\ UNCHANGED <<registryVars,
                   stageVars, components, builds, specFiles, flows, containers, nextID,
                   flow>>

\* Lines 156-161: the container engine starts the container or fails.
ExecuteContainerStart ==
    /\ exec.pc = "start"
    /\ \/ /\ containers' = [containers EXCEPT ![exec.executionMetadata.ID].state = "running"]
          /\ exec' = ReturnExecute(exec, exec.executionMetadata, ErrNil)
       \/ /\ exec' = ReturnExecute(exec, exec.executionMetadata, "Error starting container")
          /\ UNCHANGED containers
    /\ UNCHANGED <<registryVars, stageVars, storeVars, nextID, flow>>

\* ---------------------------------------------------------------------------
\* The container engine
\* ---------------------------------------------------------------------------

ExitCodes == {0, 1}

\* A running container exits.
ContainerExits ==
    /\ \E id \in DOMAIN containers, code \in ExitCodes :
          /\ containers[id].state = "running"
          /\ containers' = [containers EXCEPT ![id].state = "exited", ![id].exitCode = code]
    /\ UNCHANGED <<registryVars, stageVars, storeVars, nextID, exec, flow>>

\* ---------------------------------------------------------------------------
\* Flow specifications: materialization (flows/configuration.go)
\* ---------------------------------------------------------------------------

ValidMountMethods == {"bind", "volume", "tmpfs"}

ErrInvalidMountMethod == "Invalid mount method in component mount configuration"

\* The working directory of the shnorky process.
Cwd == <<"/", "w">>

\* filepath.Abs on the paths of the model (no "." or ".." elements).
FilepathAbs(path) ==
    IF Len(path) > 0 /\ path[1] = "/"
    THEN path
    ELSE IF Len(path) = 0 THEN Cwd ELSE Cwd \o <<"/">> \o path

ZeroMountConfiguration == [Source |-> <<>>, Target |-> "", Method |-> ""]

\* MaterializeMountConfiguration without the lookup of the method in
\* ValidMountMethods.
MaterializeMountConfiguration_AnyMethod(rawConfig) ==
    [config |-> [Source |-> FilepathAbs(MaterializeEnv(rawConfig.Source)),
                 Target |-> rawConfig.Target,
                 Method |-> rawConfig.Method],
     err |-> ErrNil]

MaterializeMountConfiguration(rawConfig) ==
    LET materializedConfig ==
            [Source |-> FilepathAbs(MaterializeEnv(rawConfig.Source)),
             Target |-> rawConfig.Target,
             Method |-> rawConfig.Method]
    IN  IF rawConfig.Method \notin ValidMountMethods
        THEN [config |-> materializedConfig, err |-> ErrInvalidMountMethod]
        ELSE [config |-> materializedConfig, err |-> ErrNil]

\* The mounts loop returning, on an invalid binding, the bindings of the
\* step materialized up to it.
MaterializeMounts_KeepMaterialized(rawMounts, order) ==
    LET materialized(step) ==
            [i \in 1..Len(rawMounts[step]) |-> MaterializeMountConfiguration(rawMounts[step][i])]
        bad(step) == {i \in 1..Len(rawMounts[step]) : materialized(step)[i].err # ErrNil}
        badSteps == {k \in 1..Len(order) : bad(order[k]) # {}}
    IN  IF badSteps = {}
        THEN [Mounts |-> [step \in DOMAIN rawMounts |->
                            [i \in 1..Len(rawMounts[step]) |-> materialized(step)[i].config]],
              err |-> ErrNil]
        ELSE LET k == CHOOSE x \in badSteps : \A y \in badSteps : x <= y
                 step == order[k]
                 i == CHOOSE x \in bad(step) : \A y \in bad(step) : x <= y
             IN  [Mounts |-> [x \in {step} |-> [j \in 1..i |-> materialized(step)[j].config]],
                  err |-> materialized(step)[i].err]

\* Lines 283-298 of MaterializeFlowSpecification: the mounts of the steps,
\* visited in the given order; the first invalid binding ends the loop.
MaterializeMounts(rawMounts, order) ==
    LET materialized(step) ==
            [i \in 1..Len(rawMounts[step]) |-> MaterializeMountConfiguration(rawMounts[step][i])]
        bad(step) == {i \in 1..Len(rawMounts[step]) : materialized(step)[i].err # ErrNil}
        badSteps == {k \in 1..Len(order) : bad(order[k]) # {}}
    IN  IF badSteps = {}
        THEN [Mounts |-> [step \in DOMAIN rawMounts |->
                            [i \in 1..Len(rawMounts[step]) |-> materialized(step)[i].config]],
              err |-> ErrNil]
        ELSE LET k == CHOOSE x \in badSteps : \A y \in badSteps : x <= y
                 step == order[k]
                 i == CHOOSE x \in bad(step) : \A y \in bad(step) : x <= y
             IN  [Mounts |-> [x \in {step} |-> <<materialized(step)[i].config>>],
                  err |-> materialized(step)[i].err]

ZeroFlowSpecification ==
    [Steps |-> EmptyMap, Dependencies |-> EmptyMap, Stages |-> <<>>, Mounts |-> EmptyMap,
     Env |-> EmptyMap]

MaterializeFlowSpecification(rawSpecification, ord) ==
    IF \E step \in DOMAIN rawSpecification.Steps : rawSpecification.Steps[step] = ""
    THEN [spec |-> rawSpecification, err |-> "Invalid component for step"]
    ELSE IF ~Validated(rawSpecification)
    THEN [spec |-> rawSpecification, err |-> "Unknown step in dependencies"]
    ELSE
      LET calculated == CalculateStages(rawSpecification, ord)
          withStages ==
              [ZeroFlowSpecification EXCEPT !.Steps = rawSpecification.Steps,
                                            !.Dependencies = rawSpecification.Dependencies,
                                            !.Stages = calculated.stages]
          mounts == MaterializeMounts(rawSpecification.Mounts,
                                      Iterate(DOMAIN rawSpecification.Mounts, ord))
          materializedEnv ==
              [step \in DOMAIN rawSpecification.Env |->
                  [key \in DOMAIN rawSpecification.Env[step] |->
                      MaterializeEnv(rawSpecification.Env[step][key])]]
      IN
        IF calculated.err # ErrNil
        THEN [spec |-> withStages, err |-> calculated.err]
        ELSE IF mounts.err # ErrNil
        THEN [spec |-> [withStages EXCEPT !.Mounts = mounts.Mounts], err |-> mounts.err]
        ELSE [spec |-> [withStages EXCEPT !.Mounts = mounts.Mounts, !.Env = materializedEnv],
              err |-> ErrNil]

\* flows.ReadSingleSpecification applied to the content of a file.
ReadFlowSpecification(file, ord) ==
    IF file = NoFile
    THEN [spec |-> ZeroFlowSpecification, err |-> "Error decoding flow specification"]
    ELSE MaterializeFlowSpecification(file, ord)

\* ---------------------------------------------------------------------------
\* flows.Execute (flows/flow.go)
\* ---------------------------------------------------------------------------

ErrFlowNotFound == "Could not find the specified flow"

ZeroFlowMetadata == [ID |-> "", SpecificationPath |-> "", CreatedAt |-> 0]

\* SelectFlowByID treating a miss as a hit of the zero-valued record.
SelectFlowByID_NoMiss(rows, id) ==
    IF \E row \in rows : row.ID = id
    THEN [flow |-> Scanned(CHOOSE row \in rows : row.ID = id), err |-> ErrNil]
    ELSE [flow |-> ZeroFlowMetadata, err |-> ErrNil]

SelectFlowByID(rows, id) ==
    IF \E row \in rows : row.ID = id
    THEN [flow |-> Scanned(CHOOSE row \in rows : row.ID = id), err |-> ErrNil]
    ELSE [flow |-> ZeroFlowMetadata, err |-> ErrFlowNotFound]

NoError == [kind |-> ErrNil, steps |-> {}]

\* An error of flows.Execute: its kind and the steps its message names.
FlowError(kind, steps) == [kind |-> kind, steps |-> steps]

IdleFlow ==
    [pc |-> "idle", flowID |-> "", specification |-> ZeroFlowSpecification,
     buildIDs |-> EmptyMap, unresolved |-> {}, stages |-> <<>>, stageNum |-> 0,
     started |-> 0, componentExecutions |-> EmptyMap, stepExecutions |-> EmptyMap,
     pending |-> {}, current |-> "", returned |-> EmptyMap, err |-> NoError]

CallFlowExecute(flowID) == [IdleFlow EXCEPT !.pc = "read", !.flowID = flowID]

ReturnFlow(frame, stepExecutions, err) ==
    [frame EXCEPT !.pc = "returned", !.returned = stepExecutions, !.err = err]

\* The value of a Go map at a key: the zero value when the key is absent.
MapGet(m, k, zero) == IF k \in DOMAIN m THEN m[k] ELSE zero

\* The step whose execution the loop over the current stage has reached.
CurrentStep(frame) == frame.stages[frame.stageNum][frame.started + 1]

\* Lines 235-248: the flow row and its specification file.
FlowRead ==
    /\ flow.pc = "read"
    /\ IF SelectFlowByID(flows, flow.flowID).err # ErrNil
       THEN flow' = ReturnFlow(flow, EmptyMap, FlowError(ErrFlowNotFound, {}))
       ELSE \E ord \in Orders :
              LET read == ReadFlowSpecification(flowSpecification, ord)
              IN  IF read.err # ErrNil
                  THEN flow' = ReturnFlow(flow, EmptyMap, FlowError(read.err, {}))
                  ELSE flow' = [flow EXCEPT
                                  !.specification = read.spec,
                                  !.unresolved = DOMAIN read.spec.Steps,
                                  !.pc = IF DOMAIN read.spec.Steps = {}
                                         THEN "stages" ELSE "resolve"]
    /\ UNCHANGED <<registryVars, stageVars, storeVars, containers, nextID, exec>>

\* The resolution loop going on to the next step when a step has no build.
FlowResolveBuild_SkipMissing ==
    /\ flow.pc = "resolve"
    /\ \E step \in flow.unresolved :
          LET candidates == MostRecentBuilds(builds, flow.specification.Steps[step])
              next == IF flow.unresolved = {step} THEN "stages" ELSE "resolve"
          IN  IF candidates = {}
              THEN flow' = [flow EXCEPT !.unresolved = flow.unresolved \ {step}, !.pc = next]
              ELSE \E build \in candidates :
                     flow' = [flow EXCEPT
                                !.buildIDs = MapPut(flow.buildIDs, step, build.ID),
                                !.unresolved = flow.unresolved \ {step},
                                !.pc = next]
    /\ UNCHANGED <<registryVars, stageVars, storeVars, containers, nextID, exec>>

\* Lines 250-258: one iteration of the loop resolving the build of each step.
FlowResolveBuild ==
    /\ flow.pc = "resolve"
    /\ \E step \in flow.unresolved :
          LET candidates == MostRecentBuilds(builds, flow.specification.Steps[step])
          IN  IF candidates = {}
              THEN flow' = ReturnFlow(flow, EmptyMap, FlowError(ErrBuildNotFound, {}))
              ELSE \E build \in candidates :
                     flow' = [flow EXCEPT
                                !.buildIDs = MapPut(flow.buildIDs, step, build.ID),
                                !.unresolved = flow.unresolved \ {step},
                                !.pc = IF flow.unresolved = {step}
                                       THEN "stages" ELSE "resolve"]
    /\ UNCHANGED <<registryVars, stageVars, storeVars, containers, nextID, exec>>

\* Lines 260-266: the stages, and the entry into the loop over them.
FlowCalculateStages ==
    /\ flow.pc = "stages"
    /\ \E ord \in IterationOrders(DOMAIN flow.specification.Steps) :
          LET calculated == CalculateStages(flow.specification, ord)
          IN  IF calculated.err # ErrNil
              THEN flow' = ReturnFlow(flow, EmptyMap, FlowError(calculated.err, {}))
              ELSE IF Len(calculated.stages) = 0
              THEN flow' = ReturnFlow([flow EXCEPT !.stages = calculated.stages],
                                      EmptyMap, NoError)
              ELSE flow' = [flow EXCEPT !.stages = calculated.stages, !.stageNum = 1,
                                        !.started = 0, !.pc = "startStep"]
    /\ UNCHANGED <<registryVars, stageVars, storeVars, containers, nextID, exec>>

\* components.Execute called with the most recent build of the step's
\* component at the time of the call.
FlowStartStep_ResolveLate ==
    /\ flow.pc = "startStep"
    /\ LET step == CurrentStep(flow)
       IN  \E selected \in SelectMostRecentBuildForComponent(
                               builds, flow.specification.Steps[step]) :
              exec' = CallExecute(selected.build.ID, flow.flowID,
                                  MapGet(flow.specification.Mounts, step, <<>>),
                                  MapGet(flow.specification.Env, step, EmptyMap),
                                  executions)
    /\ flow' = [flow EXCEPT !.pc = "awaitExecute"]
    /\ UNCHANGED <<registryVars, stageVars, storeVars, containers, nextID>>

\* Lines 268-269: components.Execute is called for the next step of the stage.
FlowStartStep ==
    /\ flow.pc = "startStep"
    /\ LET step == CurrentStep(flow)
       IN  exec' = CallExecute(MapGet(flow.buildIDs, step, EmptyBuildID), flow.flowID,
                               MapGet(flow.specification.Mounts, step, <<>>),
                               MapGet(flow.specification.Env, step, EmptyMap),
                               executions)
    /\ flow' = [flow EXCEPT !.pc = "awaitExecute"]
    /\ UNCHANGED <<registryVars, stageVars, storeVars, containers, nextID>>

\* The failure of a step returning an empty map, as the failures before the
\* loop over the stages do.
FlowStepReturned_EmptyOnError ==
    /\ flow.pc = "awaitExecute"
    /\ exec.pc = "returned"
    /\ LET step == CurrentStep(flow)
           stage == flow.stages[flow.stageNum]
       IN  IF exec.err # ErrNil
           THEN flow' = ReturnFlow(flow, EmptyMap, FlowError(exec.err, {}))
           ELSE flow' = [flow EXCEPT
                           !.componentExecutions =
                               MapPut(flow.componentExecutions, step, exec.executionMetadata),
                           !.stepExecutions =
                               MapPut(flow.stepExecutions, step, exec.executionMetadata),
                           !.started = flow.started + 1,
                           !.pending = IF flow.started + 1 = Len(stage)
                                       THEN (DOMAIN flow.stepExecutions) \cup {step}
                                       ELSE {},
                           !.pc = IF flow.started + 1 = Len(stage)
                                  THEN "wait" ELSE "startStep"]
    /\ exec' = IdleExec
    /\ UNCHANGED <<registryVars, stageVars, storeVars, containers, nextID>>

\* The containers waited on after every call of components.Execute instead
\* of after the last call of the stage.
FlowStepReturned_WaitEach ==
    /\ flow.pc = "awaitExecute"
    /\ exec.pc = "returned"
    /\ LET step == CurrentStep(flow)
       IN  IF exec.err # ErrNil
           THEN flow' = ReturnFlow(flow, flow.componentExecutions, FlowError(exec.err, {}))
           ELSE flow' = [flow EXCEPT
                           !.componentExecutions =
                               MapPut(flow.componentExecutions, step, exec.executionMetadata),
                           !.stepExecutions =
                               MapPut(flow.stepExecutions, step, exec.executionMetadata),
                           !.started = flow.started + 1,
                           !.pending = (DOMAIN flow.stepExecutions) \cup {step},
                           !.pc = "wait"]
    /\ exec' = IdleExec
    /\ UNCHANGED <<registryVars, stageVars, storeVars, containers, nextID>>

\* components.Execute called again for a step whose call returned an error.
FlowStepReturned_Retry ==
    /\ flow.pc = "awaitExecute"
    /\ exec.pc = "returned"
    /\ LET step == CurrentStep(flow)
           stage == flow.stages[flow.stageNum]
       IN  IF exec.err # ErrNil
           THEN flow' = [flow EXCEPT !.pc = "startStep"]
           ELSE flow' = [flow EXCEPT
                           !.componentExecutions =
                               MapPut(flow.componentExecutions, step, exec.executionMetadata),
                           !.stepExecutions =
                               MapPut(flow.stepExecutions, step, exec.executionMetadata),
                           !.started = flow.started + 1,
                           !.pending = IF flow.started + 1 = Len(stage)
                                       THEN (DOMAIN flow.stepExecutions) \cup {step}
                                       ELSE {},
                           !.pc = IF flow.started + 1 = Len(stage)
                                  THEN "wait" ELSE "startStep"]
    /\ exec' = IdleExec
    /\ UNCHANGED <<registryVars, stageVars, storeVars, containers, nextID>>

\* Lines 270-275: components.Execute has returned.
FlowStepReturned ==
    /\ flow.pc = "awaitExecute"
    /\ exec.pc = "returned"
    /\ LET step == CurrentStep(flow)
           stage == flow.stages[flow.stageNum]
       IN  IF exec.err # ErrNil
           THEN flow' = ReturnFlow(flow, flow.componentExecutions, FlowError(exec.err, {}))
           ELSE flow' = [flow EXCEPT
                           !.componentExecutions =
                               MapPut(flow.componentExecutions, step, exec.executionMetadata),
                           !.stepExecutions =
                               MapPut(flow.stepExecutions, step, exec.executionMetadata),
                           !.started = flow.started + 1,
                           !.pending = IF flow.started + 1 = Len(stage)
                                       THEN (DOMAIN flow.stepExecutions) \cup {step}
                                       ELSE {},
                           !.pc = IF flow.started + 1 = Len(stage)
                                  THEN "wait" ELSE "startStep"]
    /\ exec' = IdleExec
    /\ UNCHANGED <<registryVars, stageVars, storeVars, containers, nextID>>

\* Line 277: the loop over stepExecutions takes its next entry, or the stage
\* is finished and the loop over the stages goes on (lines 266-267, 294).
FlowNextContainer ==
    /\ flow.pc = "wait"
    /\ flow.current = ""
    /\ IF flow.pending # {}
       THEN \E step \in flow.pending :
              flow' = [flow EXCEPT !.current = step, !.pending = flow.pending \ {step}]
       ELSE IF flow.stageNum = Len(flow.stages)
       THEN flow' = ReturnFlow(flow, flow.componentExecutions, NoError)
       ELSE flow' = [flow EXCEPT !.stageNum = flow.stageNum + 1, !.started = 0,
                                 !.stepExecutions = EmptyMap, !.pc = "startStep"]
    /\ UNCHANGED <<registryVars, stageVars, storeVars, containers, nextID, exec>>

\* The inspection loop leaving a container that is still running.
FlowContainerInspect_NoWait ==
    /\ flow.pc = "wait"
    /\ flow.current # ""
    /\ LET id == flow.stepExecutions[flow.current].ID
       IN  \/ flow' = ReturnFlow(flow, flow.componentExecutions,
                                 FlowError("Error executing step", {flow.current}))
           \/ /\ id \in DOMAIN containers
              /\ IF containers[id].state = "running" \/ containers[id].exitCode = 0
                 THEN flow' = [flow EXCEPT !.current = ""]
                 ELSE flow' = ReturnFlow(flow, flow.componentExecutions,
                                         FlowError("exited with non-zero code",
                                                   {flow.current}))
    /\ UNCHANGED <<registryVars, stageVars, storeVars, containers, nextID, exec>>

\* Lines 278-290: one inspection of the container of the current entry.
FlowContainerInspect ==
    /\ flow.pc = "wait"
    /\ flow.current # ""
    /\ LET id == flow.stepExecutions[flow.current].ID
       IN  \/ flow' = ReturnFlow(flow, flow.componentExecutions,
                                 FlowError("Error executing step", {flow.current}))
           \/ /\ id \in DOMAIN containers
              /\ IF containers[id].state = "running"
                 THEN flow' = flow
                 ELSE IF containers[id].exitCode = 0
                 THEN flow' = [flow EXCEPT !.current = ""]
                 ELSE flow' = ReturnFlow(flow, flow.componentExecutions,
                                         FlowError("exited with non-zero code",
                                                   {flow.current}))
    /\ UNCHANGED <<registryVars, stageVars, storeVars, containers, nextID, exec>>

\* ---------------------------------------------------------------------------
\* Registration and builds of flows (flows/flow.go)
\* ---------------------------------------------------------------------------

ErrEmptySpecificationPath == "SpecificationPath must be a non-empty string"

\* The working directory of the shnorky process, as a path of the metadata.
CwdPath == "/w"

\* filepath.Abs on the specification paths of the model (no "." or ".."
\* elements).
AbsolutePath(path) ==
    IF path = ""
    THEN CwdPath
    ELSE IF SubSeq(path, 1, 1) = "/" THEN path ELSE PathJoin(CwdPath, path)

\* GenerateFlowMetadata; createdAt is the value of time.Now.
GenerateFlowMetadata(id, specificationPath, createdAt) ==
    IF id = ""
    THEN [flow |-> ZeroFlowMetadata, err |-> ErrEmptyID]
    ELSE IF specificationPath = ""
    THEN [flow |-> ZeroFlowMetadata, err |-> ErrEmptySpecificationPath]
    ELSE [flow |-> [ID |-> id, SpecificationPath |-> specificationPath,
                    CreatedAt |-> createdAt],
          err |-> ErrNil]

\* AddFlow going on when the specification cannot be read.
AddFlow_Unvalidated(rows, files, id, specificationPath, createdAt, ord) ==
    LET absoluteSpecificationPath == AbsolutePath(specificationPath)
        generated == GenerateFlowMetadata(id, absoluteSpecificationPath, createdAt)
        inserted == Insert(rows, generated.flow)
    IN  IF absoluteSpecificationPath \notin DOMAIN files
        THEN [flow |-> ZeroFlowMetadata, err |-> "Error opening specification file",
              rows |-> rows]
        ELSE IF generated.err # ErrNil
        THEN [flow |-> generated.flow, err |-> generated.err, rows |-> rows]
        ELSE [flow |-> generated.flow, err |-> inserted.err, rows |-> inserted.rows]

\* AddFlow: the metadata and error returned, and the flows table.
AddFlow(rows, files, id, specificationPath, createdAt, ord) ==
    LET absoluteSpecificationPath == AbsolutePath(specificationPath)
        read == ReadFlowSpecification(files[absoluteSpecificationPath], ord)
        generated == GenerateFlowMetadata(id, absoluteSpecificationPath, createdAt)
        inserted == Insert(rows, generated.flow)
    IN  IF absoluteSpecificationPath \notin DOMAIN files
        THEN [flow |-> ZeroFlowMetadata, err |-> "Error opening specification file",
              rows |-> rows]
        ELSE IF read.err # ErrNil
        THEN [flow |-> ZeroFlowMetadata, err |-> "Error reading specification",
              rows |-> rows]
        ELSE IF generated.err # ErrNil
        THEN [flow |-> generated.flow, err |-> generated.err, rows |-> rows]
        ELSE [flow |-> generated.flow, err |-> inserted.err, rows |-> inserted.rows]

\* The loop of flows.Build calling CreateBuild for every step.
RECURSIVE BuildLoop_EveryStep(_, _, _, _, _)
BuildLoop_EveryStep(steps, order, k, done, world) ==
    IF k > Len(order)
    THEN done
    ELSE
      LET component == steps[order[k]]
          created == CreateBuild(world.components, done.builds, done.images, world.files,
                                 component, world.createdAt, world.outcomes[component])
          called == [done EXCEPT !.calls = Append(@, component),
                                 !.builds = created.builds,
                                 !.images = created.images]
      IN  IF created.err # ErrNil
          THEN [called EXCEPT !.err = created.err]
          ELSE BuildLoop_EveryStep(steps, order, k + 1,
                         [called EXCEPT
                            !.componentBuilds = MapPut(@, component, created.build)],
                         world)

\* Lines 208-224 of flows.Build from the k-th step of the iteration on:
\* done holds componentBuilds, the components CreateBuild was called for,
\* the builds table and the images; world holds what the loop only reads.
RECURSIVE BuildLoop(_, _, _, _, _)
BuildLoop(steps, order, k, done, world) ==
    IF k > Len(order)
    THEN done
    ELSE
      LET component == steps[order[k]]
          created == CreateBuild(world.components, done.builds, done.images, world.files,
                                 component, world.createdAt, world.outcomes[component])
          called == [done EXCEPT !.calls = Append(@, component),
                                 !.builds = created.builds,
                                 !.images = created.images]
      IN  IF component \in DOMAIN done.componentBuilds
          THEN BuildLoop(steps, order, k + 1, done, world)
          ELSE IF created.err # ErrNil
          THEN [called EXCEPT !.err = created.err]
          ELSE BuildLoop(steps, order, k + 1,
                         [called EXCEPT
                            !.componentBuilds = MapPut(@, component, created.build)],
                         world)

\* flows.Build: the map and error returned, the components CreateBuild was
\* called for, the builds table and the images of the engine.
Build(flowRows, componentRows, buildRows, tags, files, flowID, createdAt, ord, outcomes) ==
    LET selected == SelectFlowByID(flowRows, flowID)
        path == selected.flow.SpecificationPath
        read == ReadFlowSpecification(files[path], ord)
        nothing(err) ==
            [componentBuilds |-> EmptyMap, calls |-> <<>>, builds |-> buildRows,
             images |-> tags, err |-> err]
    IN  IF selected.err # ErrNil
        THEN nothing(selected.err)
        ELSE IF path \notin DOMAIN files
        THEN nothing("Error opening specification file")
        ELSE IF read.err # ErrNil
        THEN nothing(read.err)
        ELSE BuildLoop(read.spec.Steps, Iterate(DOMAIN read.spec.Steps, ord), 1,
                       nothing(ErrNil),
                       [components |-> componentRows, files |-> files,
                        createdAt |-> createdAt, outcomes |-> outcomes])

\* ---------------------------------------------------------------------------
\* The stage scheduler applied to the bounded flow specifications
\* ---------------------------------------------------------------------------

NoResult == [stages |-> <<>>, err |-> ErrNil]

InitStages ==
    /\ \E n \in 0..MaxSteps, l \in 0..MaxDeps :
         LET names == FirstNames(Min(n + 1, MaxSteps))
         IN  \E entries \in [1..l -> names \X names] :
               /\ Grouped(entries)
               /\ \E empty \in SUBSET (names \ EntryKeys(entries)) :
                     flowSpecification =
                       [Steps |-> [s \in FirstNames(n) |-> ComponentOf(s)],
                        Dependencies |->
                          DependenciesOf(entries, EntryKeys(entries) \cup empty)]
    /\ result = NoResult
    /\ pc = "input"
    /\ components = {}
    /\ builds = {}
    /\ executions = {}
    /\ specFiles = EmptyMap
    /\ containers = EmptyMap
    /\ flows = {}
    /\ nextID = 1
    /\ exec = IdleExec
    /\ flow = IdleFlow
    /\ clock = 1
    /\ images = NoImages
    /\ stateDir = Directory(TableNames)

CallCalculateStages ==
    /\ pc = "input"
    /\ \E ord \in IterationOrders(DOMAIN flowSpecification.Steps) :
          result' = CalculateStages(flowSpecification, ord)
    /\ pc' = "calculated"
    /\ UNCHANGED <<registryVars, flowSpecification, storeVars, containers, nextID, exec, flow>>

NextStages == CallCalculateStages

SpecStages == InitStages /\ [][NextStages]_vars

\* ---------------------------------------------------------------------------
\* MaterializeFlowSpecification applied to bounded raw flow specifications:
\* steps with or without a component, dependencies over the steps and one
\* name that is no step, a caller-supplied Stages field, mounts and env.
\* ---------------------------------------------------------------------------

\* The number of steps of a raw flow specification.
MaxRawSteps == 1

\* The number of dependency entries of a raw flow specification.
MaxRawDeps == 2

\* The Stages field as it may stand in the file.
RawStages == {<<>>, <<<<"a">>>>, <<<<"b">>, <<"a">>>>}

\* The mounts section of the file: none, a valid binding, a binding whose
\* method is not a mount method, and two steps with such bindings, one of
\* them after a valid binding.
RawMounts ==
    {EmptyMap,
     "a" :> <<[Source |-> <<"s">>, Target |-> "/in", Method |-> "bind"]>>,
     "a" :> <<[Source |-> <<"s">>, Target |-> "/in", Method |-> "link"]>>,
     ("a" :> <<[Source |-> <<"s">>, Target |-> "/in", Method |-> "volume"],
               [Source |-> SpecialPrefixEnv \o <<"H">>, Target |-> "/out", Method |-> "link"],
               [Source |-> <<"u">>, Target |-> "/tmp", Method |-> "copy"]>>)
     @@ ("b" :> <<[Source |-> <<"/", "r">>, Target |-> "/in", Method |-> ""]>>),
     "a" :> <<[Source |-> SpecialPrefixEnv \o <<"H">>, Target |-> "/data", Method |-> "tmpfs"],
              [Source |-> <<"/", "r">>, Target |-> "/abs", Method |-> "bind"],
              [Source |-> SpecialPrefixEnv \o <<"N">>, Target |-> "/cwd", Method |-> "volume"]>>}

\* The env section that goes with a mounts section.
RawEnv(mounts) ==
    IF mounts = EmptyMap THEN EmptyMap ELSE "a" :> ("K" :> (SpecialPrefixEnv \o <<"H">>))

InitMaterialize ==
    /\ \E n \in 0..MaxRawSteps, l \in 0..MaxRawDeps :
         LET names == FirstNames(Min(n + 1, MaxSteps))
         IN  \E entries \in [1..l -> names \X names] :
               /\ Grouped(entries)
               /\ \E empty \in SUBSET (names \ EntryKeys(entries)),
                     noComponent \in SUBSET FirstNames(n),
                     stages \in RawStages, mounts \in RawMounts :
                     flowSpecification =
                       [Steps |-> [s \in FirstNames(n) |->
                                     IF s \in noComponent THEN "" ELSE ComponentOf(s)],
                        Dependencies |->
                          DependenciesOf(entries, EntryKeys(entries) \cup empty),
                        Stages |-> stages,
                        Mounts |-> mounts,
                        Env |-> RawEnv(mounts)]
    /\ result = NoResult
    /\ pc = "input"
    /\ components = {}
    /\ builds = {}
    /\ executions = {}
    /\ specFiles = EmptyMap
    /\ containers = EmptyMap
    /\ flows = {}
    /\ nextID = 1
    /\ exec = IdleExec
    /\ flow = IdleFlow
    /\ clock = 1
    /\ images = NoImages
    /\ stateDir = Directory(TableNames)

CallMaterializeFlowSpecification ==
    /\ pc = "input"
    /\ \E ord \in IterationOrders((DOMAIN flowSpecification.Steps)
                                   \cup (DOMAIN flowSpecification.Mounts)) :
          result' = MaterializeFlowSpecification(flowSpecification, ord)
    /\ pc' = "materialized"
    /\ UNCHANGED <<registryVars, flowSpecification, storeVars, containers, nextID, exec, flow>>

NextMaterialize == CallMaterializeFlowSpecification

SpecMaterialize == InitMaterialize /\ [][NextMaterialize]_vars

\* ---------------------------------------------------------------------------
\* The execution of one build: components.Execute called with bounded inputs
\* ---------------------------------------------------------------------------

ComponentIDs == {"c1", "c2"}

\* The row of a registered component; its specification file goes by the
\* id of the component.
ComponentRow(id) ==
    [ID |-> id, ComponentType |-> "task", ComponentPath |-> "dir",
     SpecificationPath |-> id, CreatedAt |-> 1]

PlainSpecFile == [Run |-> [Env |-> EmptyMap, Mountpoints |-> <<>>, User |-> <<>>]]

MountSpecification(mountType, mountpoint, required) ==
    [MountType |-> mountType, Mountpoint |-> mountpoint, Required |-> required]

\* The specification files of a component that the model draws from.
ComponentSpecFiles ==
    {NoFile,
     PlainSpecFile,
     [PlainSpecFile EXCEPT !.Run.User = SpecialPrefixUsername \o <<"r">>],
     [PlainSpecFile EXCEPT !.Run.User = SpecialPrefixUsername \o <<"g">>],
     [PlainSpecFile EXCEPT !.Run.Env = ("K" :> (SpecialPrefixEnv \o <<"H">>))],
     [PlainSpecFile EXCEPT !.Run.Mountpoints = <<MountSpecification("dir", "/in", TRUE)>>],
     [PlainSpecFile EXCEPT !.Run.Mountpoints = <<MountSpecification("dir", "/in", FALSE)>>],
     [PlainSpecFile EXCEPT !.Run.Mountpoints = <<MountSpecification("link", "/in", FALSE)>>],
     [PlainSpecFile EXCEPT !.Run.Mountpoints = <<MountSpecification("dir", "/in", FALSE),
                                                 MountSpecification("dir", "/out", TRUE)>>],
     [PlainSpecFile EXCEPT !.Run.Mountpoints = <<MountSpecification("dir", "/in", FALSE),
                                                 MountSpecification("dir", "/in", FALSE),
                                                 MountSpecification("dir", "/out", TRUE)>>]}

\* The mounts and the environment a caller passes to components.Execute.
MountArguments ==
    {<<>>, <<[Source |-> <<"/", "s">>, Target |-> "/in", Method |-> "bind"]>>}

EnvArguments == {EmptyMap, "K" :> <<"v">>, "J" :> <<"v">>}

StoredBuild == [ID |-> GenerateBuildID("c1", 1), ComponentID |-> "c1", CreatedAt |-> 1]

InitExec ==
    /\ flowSpecification = NoFile
    /\ result = NoResult
    /\ pc = "idle"
    /\ components \in {{ComponentRow("c1")}, {}}
    /\ builds = {StoredBuild}
    /\ executions = {}
    /\ specFiles \in [{"c1"} -> ComponentSpecFiles]
    /\ containers = EmptyMap
    /\ flows = {}
    /\ nextID = 1
    /\ \E buildID \in {StoredBuild.ID, GenerateBuildID("c1", 2)},
          flowID \in {"", "flow"},
          mounts \in MountArguments,
          env \in EnvArguments :
          exec = CallExecute(buildID, flowID, mounts, env, executions)
    /\ flow = IdleFlow
    /\ clock = 1
    /\ images = NoImages
    /\ stateDir = Directory(TableNames)

NextExec ==
    \/ ExecuteSelectBuild
    \/ ExecuteConfigure
    \/ ExecuteContainerCreate
    \/ ExecuteInsertExecution
    \/ ExecuteContainerStart
    \/ ContainerExits

SpecExec == InitExec /\ [][NextExec]_vars

\* The execution of a build after the removal of components: both
\* components are registered and c1 has a build; components are removed and
\* then components.Execute is called.
InitExecRemoved ==
    /\ flowSpecification = NoFile
    /\ result = NoResult
    /\ pc = "idle"
    /\ components = {ComponentRow(c) : c \in ComponentIDs}
    /\ builds = {StoredBuild}
    /\ executions = {}
    /\ specFiles \in
          [ComponentIDs ->
              {NoFile, PlainSpecFile,
               [PlainSpecFile EXCEPT
                  !.Run.Mountpoints = <<MountSpecification("dir", "/in", FALSE)>>]}]
    /\ containers = EmptyMap
    /\ flows = {}
    /\ nextID = 1
    /\ exec = IdleExec
    /\ flow = IdleFlow
    /\ clock = 1
    /\ images = NoImages
    /\ stateDir = Directory(TableNames)

\* RemoveComponent deleting the builds of the component with its row.
ExecRemoveComponent_Cascade ==
    /\ exec.pc = "idle"
    /\ \E id \in ComponentIDs :
          /\ components' = DeleteComponentByID(components, id)
          /\ builds' = {row \in builds : row.ComponentID # id}
    /\ UNCHANGED <<registryVars, stageVars, executions, specFiles, flows, containers,
                   nextID, exec, flow>>

\* RemoveComponent (components/build.go, lines 298-304), called before the
\* execution.
ExecRemoveComponent ==
    /\ exec.pc = "idle"
    /\ \E id \in ComponentIDs :
          components' = DeleteComponentByID(components, id)
    /\ UNCHANGED <<registryVars, stageVars, builds, executions, specFiles, flows,
                   containers, nextID, exec, flow>>

\* components.Execute is called for the stored build.
ExecCall ==
    /\ exec.pc = "idle"
    /\ \E flowID \in {"", "flow"}, mounts \in MountArguments, env \in EnvArguments :
          exec' = CallExecute(StoredBuild.ID, flowID, mounts, env, executions)
    /\ UNCHANGED <<registryVars, stageVars, storeVars, containers, nextID, flow>>

NextExecRemoved ==
    \/ ExecRemoveComponent
    \/ ExecCall
    \/ NextExec

SpecExecRemoved == InitExecRemoved /\ [][NextExecRemoved]_vars

\* ---------------------------------------------------------------------------
\* The execution of a flow: flows.Execute called on bounded flows
\* ---------------------------------------------------------------------------

\* Number of steps of an executed flow.
MaxFlowSteps == 2

\* Total number of entries of the dependency lists of an executed flow.
MaxFlowDeps == 1

\* The builds the builds table of an executed flow is drawn from.
AllBuilds ==
    {[ID |-> GenerateBuildID("c1", 1), ComponentID |-> "c1", CreatedAt |-> 1],
     [ID |-> GenerateBuildID("c1", 2), ComponentID |-> "c1", CreatedAt |-> 2],
     [ID |-> GenerateBuildID("c2", 1), ComponentID |-> "c2", CreatedAt |-> 1]}

\* The specification file of component c1 in an executed flow: an environment
\* variable and an optional mountpoint.
MountingSpecFile ==
    [PlainSpecFile EXCEPT
       !.Run.Env = ("K" :> (SpecialPrefixEnv \o <<"H">>)),
       !.Run.Mountpoints = <<MountSpecification("dir", "/in", FALSE)>>]

\* The mounts and env sections of the flow specification file: empty, or a
\* binding and a variable for step a.
FlowStepArguments ==
    {[Mounts |-> EmptyMap, Env |-> EmptyMap],
     [Mounts |-> ("a" :> <<[Source |-> <<"s">>, Target |-> "/in", Method |-> "bind"]>>),
      Env |-> ("a" :> ("K" :> <<"v">>))]}

Init ==
    /\ \/ flowSpecification = NoFile
       \/ \E n \in 1..MaxFlowSteps, l \in 0..MaxFlowDeps :
             \E entries \in [1..l -> FirstNames(n) \X FirstNames(n)] :
               /\ Grouped(entries)
               /\ \E stepArguments \in FlowStepArguments :
                     flowSpecification =
                       [ZeroFlowSpecification EXCEPT
                          !.Steps = [s \in FirstNames(n) |-> ComponentOf(s)],
                          !.Dependencies = DependenciesOf(entries, EntryKeys(entries)),
                          !.Mounts = stepArguments.Mounts,
                          !.Env = stepArguments.Env]
    /\ result = NoResult
    /\ pc = "idle"
    /\ components = {ComponentRow(c) : c \in ComponentIDs}
    /\ builds \in SUBSET AllBuilds
    /\ executions = {}
    /\ specFiles = [c \in ComponentIDs |-> IF c = "c1" THEN MountingSpecFile ELSE PlainSpecFile]
    /\ containers = EmptyMap
    /\ flows = {[ID |-> "flow", SpecificationPath |-> "flow.json", CreatedAt |-> 1]}
    /\ nextID = 1
    /\ exec = IdleExec
    /\ \E flowID \in {"flow", "other"} : flow = CallFlowExecute(flowID)
    /\ clock = 1
    /\ images = NoImages
    /\ stateDir = Directory(TableNames)

Next ==
    \/ FlowRead
    \/ FlowResolveBuild
    \/ FlowCalculateStages
    \/ FlowStartStep
    \/ FlowStepReturned
    \/ FlowNextContainer
    \/ FlowContainerInspect
    \/ ExecuteSelectBuild
    \/ ExecuteConfigure
    \/ ExecuteContainerCreate
    \/ ExecuteInsertExecution
    \/ ExecuteContainerStart
    \/ ContainerExits

Spec == Init /\ [][Next]_vars

\* A build made by another shnorky process while the flow is executed:
\* InsertBuild commits a row created later than the rows the builds table
\* has for the component.
ConcurrentInsertBuild ==
    /\ flow.pc # "returned"
    /\ \E build \in AllBuilds :
          /\ \A row \in builds :
                row.ComponentID = build.ComponentID => row.CreatedAt < build.CreatedAt
          /\ Insert(builds, Scanned(build)).err = ErrNil
          /\ builds' = Insert(builds, Scanned(build)).rows
    /\ UNCHANGED <<registryVars, stageVars, components, executions, specFiles, flows,
                   containers, nextID, exec, flow>>

NextConcurrentBuild ==
    \/ Next
    \/ ConcurrentInsertBuild

\* The flow is executed with a build stored for each component.
InitConcurrentBuild ==
    /\ Init
    /\ builds = {build \in AllBuilds : build.CreatedAt = 1}

SpecConcurrentBuild == InitConcurrentBuild /\ [][NextConcurrentBuild]_vars

\* ---------------------------------------------------------------------------
\* The state database: the insert, select and delete functions of
\* components/state.go and flows/state.go called in any order
\* ---------------------------------------------------------------------------

\* The times at which metadata is generated: within second 0, at the start
\* of second 1 and within second 1.
Times == {1, 2, 3}

\* Two registrations of every component: they differ in the specification
\* path and in the time.
ComponentMetadatas ==
    {[ID |-> id, ComponentType |-> "task", ComponentPath |-> "dir",
      SpecificationPath |-> registration[1], CreatedAt |-> registration[2]] :
        id \in ComponentIDs, registration \in {<<"one.json", 1>>, <<"two.json", 3>>}}

\* The builds GenerateBuildMetadata makes, and a build that carries the id
\* of one of them with another component and time.
BuildMetadatas ==
    {[ID |-> GenerateBuildID("c1", Unix(time)), ComponentID |-> "c1", CreatedAt |-> time] :
        time \in Times}
    \cup {[ID |-> GenerateBuildID("c2", 1), ComponentID |-> "c2", CreatedAt |-> 2],
          [ID |-> GenerateBuildID("c1", 1), ComponentID |-> "c2", CreatedAt |-> 1]}

FlowMetadatas ==
    {[ID |-> "flow", SpecificationPath |-> "flow.json", CreatedAt |-> 3],
     [ID |-> "flow", SpecificationPath |-> "two.json", CreatedAt |-> 1],
     [ID |-> "other", SpecificationPath |-> "flow.json", CreatedAt |-> 2]}

NoTables == [components |-> {}, builds |-> {}, flows |-> {}]

\* The tables as an operation finds them.
Tables == [components |-> components, builds |-> builds, flows |-> flows]

\* The metadata last inserted under each id that has not been deleted since.
NoInserted == [components |-> EmptyMap, builds |-> EmptyMap, flows |-> EmptyMap]

NoOutcome ==
    [op |-> "none", arg |-> "", value |-> ZeroFlowMetadata, err |-> ErrNil,
     before |-> NoTables, inserted |-> NoInserted]

\* What the caller of a store function holds when it has returned.
Outcome(op, arg, value, err, inserted) ==
    [op |-> op, arg |-> arg, value |-> value, err |-> err, before |-> Tables,
     inserted |-> inserted]

InitStore ==
    /\ flowSpecification = NoFile
    /\ result = NoOutcome
    /\ pc = "store"
    /\ components = {}
    /\ builds = {}
    /\ executions = {}
    /\ specFiles = EmptyMap
    /\ containers = EmptyMap
    /\ flows = {}
    /\ nextID = 1
    /\ exec = IdleExec
    /\ flow = IdleFlow
    /\ clock = 1
    /\ images = NoImages
    /\ stateDir = Directory(TableNames)

\* The record of the inserted metadata after an insert.
Recorded(inserted, metadata, err) ==
    IF err = ErrNil THEN MapPut(inserted, metadata.ID, metadata) ELSE inserted

StoreInsertComponent ==
    /\ pc = "store"
    /\ \E metadata \in ComponentMetadatas :
          LET inserted == Insert(components, metadata)
          IN  /\ components' = inserted.rows
              /\ result' = Outcome("InsertComponent", metadata, metadata, inserted.err,
                                   [result.inserted EXCEPT
                                      !.components = Recorded(@, metadata, inserted.err)])
    /\ UNCHANGED <<registryVars,
                   flowSpecification, pc, builds, executions, specFiles, containers, flows,
                   nextID, exec, flow>>

StoreSelectComponentByID ==
    /\ pc = "store"
    /\ \E id \in ComponentIDs :
          LET selected == SelectComponentByID(components, id)
          IN  result' = Outcome("SelectComponentByID", id, selected.component, selected.err,
                                result.inserted)
    /\ UNCHANGED <<registryVars, flowSpecification, pc, storeVars, containers, nextID, exec, flow>>

StoreDeleteComponentByID ==
    /\ pc = "store"
    /\ \E id \in ComponentIDs :
          /\ components' = DeleteComponentByID(components, id)
          /\ result' = Outcome("DeleteComponentByID", id, ZeroComponentMetadata, ErrNil,
                               [result.inserted EXCEPT
                                  !.components = Restrict(@, (DOMAIN @) \ {id})])
    /\ UNCHANGED <<registryVars,
                   flowSpecification, pc, builds, executions, specFiles, containers, flows,
                   nextID, exec, flow>>

StoreInsertBuild ==
    /\ pc = "store"
    /\ \E metadata \in BuildMetadatas :
          LET inserted == Insert(builds, metadata)
          IN  /\ builds' = inserted.rows
              /\ result' = Outcome("InsertBuild", metadata, metadata, inserted.err,
                                   [result.inserted EXCEPT
                                      !.builds = Recorded(@, metadata, inserted.err)])
    /\ UNCHANGED <<registryVars,
                   flowSpecification, pc, components, executions, specFiles, containers,
                   flows, nextID, exec, flow>>

StoreSelectBuildByID ==
    /\ pc = "store"
    /\ \E metadata \in BuildMetadatas :
          LET selected == SelectBuildByID(builds, metadata.ID)
          IN  result' = Outcome("SelectBuildByID", metadata.ID, selected.build, selected.err,
                                result.inserted)
    /\ UNCHANGED <<registryVars, flowSpecification, pc, storeVars, containers, nextID, exec, flow>>

StoreSelectMostRecentBuildForComponent ==
    /\ pc = "store"
    /\ \E componentID \in ComponentIDs :
          \E selected \in SelectMostRecentBuildForComponent(builds, componentID) :
              result' = Outcome("SelectMostRecentBuildForComponent", componentID,
                                selected.build, selected.err, result.inserted)
    /\ UNCHANGED <<registryVars, flowSpecification, pc, storeVars, containers, nextID, exec, flow>>

StoreInsertFlow ==
    /\ pc = "store"
    /\ \E metadata \in FlowMetadatas :
          LET inserted == Insert(flows, metadata)
          IN  /\ flows' = inserted.rows
              /\ result' = Outcome("InsertFlow", metadata, metadata, inserted.err,
                                   [result.inserted EXCEPT
                                      !.flows = Recorded(@, metadata, inserted.err)])
    /\ UNCHANGED <<registryVars, flowSpecification, pc, components, builds, executions, specFiles,
                   containers, nextID, exec, flow>>

StoreSelectFlowByID ==
    /\ pc = "store"
    /\ \E id \in {"flow", "other"} :
          LET selected == SelectFlowByID(flows, id)
          IN  result' = Outcome("SelectFlowByID", id, selected.flow, selected.err,
                                result.inserted)
    /\ UNCHANGED <<registryVars, flowSpecification, pc, storeVars, containers, nextID, exec, flow>>

NextStore ==
    \/ StoreInsertComponent
    \/ StoreSelectComponentByID
    \/ StoreDeleteComponentByID
    \/ StoreInsertBuild
    \/ StoreSelectBuildByID
    \/ StoreSelectMostRecentBuildForComponent
    \/ StoreInsertFlow
    \/ StoreSelectFlowByID

SpecStore == InitStore /\ [][NextStore]_vars

\* ---------------------------------------------------------------------------
\* Builds: CreateBuild, flows.Build and RemoveComponent called in any order
\* on a store with two registered components and a flow, while time passes
\* ---------------------------------------------------------------------------

\* The last tick of the clock.
MaxClock == 2

\* The tables and the state directory as a handler finds them.
Snapshot ==
    [components |-> components, builds |-> builds, executions |-> executions,
     flows |-> flows, stateDir |-> stateDir]

NoSnapshot ==
    [components |-> {}, builds |-> {}, executions |-> {}, flows |-> {},
     stateDir |-> NoObject]

NoCall ==
    [op |-> "none", arg |-> <<>>, value |-> <<>>, err |-> ErrNil, before |-> NoSnapshot,
     calls |-> <<>>]

\* What the caller of a handler holds when it has returned; calls lists the
\* components the handler called CreateBuild for.
Returned(op, arg, value, err, calls) ==
    [op |-> op, arg |-> arg, value |-> value, err |-> err, before |-> Snapshot,
     calls |-> calls]

\* The build of component c1 made at tick 0, and its execution.
EarlierBuild == GenerateBuildMetadata("c1", 0).build

EarlierExecution == GenerateExecutionMetadata(EarlierBuild, "", 1).metadata

\* The flow specification files: two steps of one component, and three
\* steps of two components.
BuildFlowFiles ==
    {[ZeroFlowSpecification EXCEPT !.Steps = ("a" :> "c1") @@ ("c" :> "c1")],
     [ZeroFlowSpecification EXCEPT
        !.Steps = ("a" :> "c1") @@ ("b" :> "c2") @@ ("c" :> "c1"),
        !.Dependencies = ("b" :> <<"a">>)]}

\* The files: the specification of c1, the flow specification, and the
\* specification of c2, which is sound, cannot be parsed or does not exist.
BuildFiles ==
    {("dir/component.json" :> PlainSpecFile) @@ ("flow.json" :> flowFile) @@ c2File :
        flowFile \in BuildFlowFiles,
        c2File \in {"c2.json" :> PlainSpecFile, "c2.json" :> NoFile, EmptyMap}}

InitBuild ==
    /\ flowSpecification = NoFile
    /\ result = NoCall
    /\ pc = "build"
    /\ components =
          AddComponent(AddComponent({}, "c1", "task", "dir", "", 0).rows,
                       "c2", "service", "dir", "c2.json", 0).rows
    /\ builds = {RowOf(EarlierBuild)}
    /\ executions = {EarlierExecution}
    /\ specFiles \in BuildFiles
    /\ containers = EmptyMap
    /\ flows = {RowOf([ID |-> "flow", SpecificationPath |-> "flow.json", CreatedAt |-> 0])}
    /\ nextID = 2
    /\ exec = IdleExec
    /\ flow = IdleFlow
    /\ clock = 0
    /\ images = {EarlierBuild.ID, LatestTag(EarlierBuild.ID)}
    /\ stateDir = Directory(TableNames)

\* Time passes between two calls.
Tick ==
    /\ clock < MaxClock
    /\ clock' = clock + 1
    /\ UNCHANGED <<stageVars, storeVars, containers, nextID, exec, flow, images, stateDir>>

\* shnorky components build
BuildCreateBuild ==
    /\ \E componentID \in ComponentIDs, outcome \in BuildOutcomes :
          LET created == CreateBuild(components, builds, images, specFiles, componentID,
                                     clock, outcome)
          IN  /\ builds' = created.builds
              /\ images' = created.images
              /\ result' = Returned("CreateBuild", componentID, created.build, created.err,
                                    <<>>)
    /\ UNCHANGED <<flowSpecification, pc, components, executions, specFiles, flows,
                   containers, nextID, exec, flow, clock, stateDir>>

\* The step names of the flow specification files.
FlowFileSteps ==
    UNION {DOMAIN specFiles[path].Steps :
              path \in {p \in DOMAIN specFiles : "Steps" \in DOMAIN specFiles[p]}}

\* shnorky flows build
BuildFlow ==
    /\ \E flowID \in {"flow", "other"}, ord \in IterationOrders(FlowFileSteps),
          outcomes \in [ComponentIDs -> BuildOutcomes] :
          LET built == Build(flows, components, builds, images, specFiles, flowID, clock,
                             ord, outcomes)
          IN  /\ builds' = built.builds
              /\ images' = built.images
              /\ result' = Returned("Build", flowID, built.componentBuilds, built.err,
                                    built.calls)
    /\ UNCHANGED <<flowSpecification, pc, components, executions, specFiles, flows,
                   containers, nextID, exec, flow, clock, stateDir>>

\* shnorky components remove
BuildRemoveComponent ==
    /\ \E id \in ComponentIDs :
          /\ components' = DeleteComponentByID(components, id)
          /\ result' = Returned("RemoveComponent", id, <<>>, ErrNil, <<>>)
    /\ UNCHANGED <<flowSpecification, pc, builds, executions, specFiles, flows, containers,
                   nextID, exec, flow, registryVars>>

NextBuild ==
    \/ Tick
    \/ BuildCreateBuild
    \/ BuildFlow
    \/ BuildRemoveComponent

SpecBuild == InitBuild /\ [][NextBuild]_vars

\* ---------------------------------------------------------------------------
\* Registration: state.Init, AddComponent, RemoveComponent and AddFlow called
\* in any order on a state directory path
\* ---------------------------------------------------------------------------

\* The flow specification files: sound, a dependency on a name that is no
\* step, a cycle, and a binding with a method that is no mount method.
SoundFlowFile ==
    [ZeroFlowSpecification EXCEPT !.Steps = ("a" :> "c1") @@ ("b" :> "c2"),
                                  !.Dependencies = ("b" :> <<"a">>)]

UnknownStepFlowFile == [SoundFlowFile EXCEPT !.Dependencies = ("b" :> <<"a", "c">>)]

CyclicFlowFile == [SoundFlowFile EXCEPT !.Dependencies = ("b" :> <<"a">>) @@ ("a" :> <<"b">>)]

InvalidMountFlowFile ==
    [SoundFlowFile EXCEPT
       !.Mounts = ("a" :> <<[Source |-> <<"s">>, Target |-> "/in", Method |-> "link"]>>)]

\* The files by absolute path; the working directory is no file to decode,
\* and missing.json is nowhere.
RegistryFiles ==
    ("/w" :> NoFile)
    @@ ("/w/flow.json" :> SoundFlowFile)
    @@ ("/etc/flow.json" :> SoundFlowFile)
    @@ ("/w/unknown.json" :> UnknownStepFlowFile)
    @@ ("/w/cyclic.json" :> CyclicFlowFile)
    @@ ("/w/mounts.json" :> InvalidMountFlowFile)
    @@ ("/w/broken.json" :> NoFile)
    @@ ("/w/dir/component.json" :> PlainSpecFile)

\* The arguments of shnorky flows add.
FlowSpecificationPaths ==
    {"", "flow.json", "/etc/flow.json", "unknown.json", "cyclic.json", "mounts.json",
     "broken.json", "missing.json"}

InitRegistry ==
    /\ flowSpecification = NoFile
    /\ result = NoCall
    /\ pc = "registry"
    /\ components = {}
    /\ builds = {}
    /\ executions = {}
    /\ specFiles = RegistryFiles
    /\ containers = EmptyMap
    /\ flows = {}
    /\ nextID = 1
    /\ exec = IdleExec
    /\ flow = IdleFlow
    /\ clock = 1
    /\ images = NoImages
    /\ stateDir \in {NoObject, PlainFile, Directory({})}

\* The state database can be opened.
Opened == stateDir.tables = TableNames

\* shnorky state init
RegistryInit ==
    /\ \E failure \in InitFailures :
          LET initialized == StateInit(stateDir, failure)
          IN  /\ stateDir' = initialized.object
              /\ IF initialized.err = ErrNil
                 THEN /\ components' = {}
                      /\ builds' = {}
                      /\ executions' = {}
                      /\ flows' = {}
                 ELSE UNCHANGED <<components, builds, executions, flows>>
              /\ result' = Returned("Init", <<>>, <<>>, initialized.err, <<>>)
    /\ UNCHANGED <<flowSpecification, pc, specFiles, containers, nextID, exec, flow, clock,
                   images>>

\* shnorky components create
RegistryAddComponent ==
    /\ Opened
    /\ \E id \in {""} \cup ComponentIDs, componentType \in {"service", "task", "job"},
          componentPath \in {"", "dir"},
          specificationPath \in {"", "broken.json", "missing.json"} :
          LET added == AddComponent(components, id, componentType, componentPath,
                                    specificationPath, clock)
          IN  /\ components' = added.rows
              /\ result' = Returned("AddComponent",
                                    <<id, componentType, componentPath, specificationPath>>,
                                    added.component, added.err, <<>>)
    /\ UNCHANGED <<flowSpecification, pc, builds, executions, specFiles, flows, containers,
                   nextID, exec, flow, registryVars>>

\* shnorky components remove
RegistryRemoveComponent ==
    /\ Opened
    /\ \E id \in ComponentIDs :
          /\ components' = DeleteComponentByID(components, id)
          /\ result' = Returned("RemoveComponent", id, <<>>, ErrNil, <<>>)
    /\ UNCHANGED <<flowSpecification, pc, builds, executions, specFiles, flows, containers,
                   nextID, exec, flow, registryVars>>

\* shnorky flows create
RegistryAddFlow ==
    /\ Opened
    /\ \E id \in {"", "flow"}, specificationPath \in FlowSpecificationPaths,
          ord \in IterationOrders(FlowFileSteps) :
          LET added == AddFlow(flows, specFiles, id, specificationPath, clock, ord)
          IN  /\ flows' = added.rows
              /\ result' = Returned("AddFlow", <<id, specificationPath>>, added.flow,
                                    added.err, <<>>)
    /\ UNCHANGED <<flowSpecification, pc, components, builds, executions, specFiles,
                   containers, nextID, exec, flow, registryVars>>

NextRegistry ==
    \/ RegistryInit
    \/ RegistryAddComponent
    \/ RegistryRemoveComponent
    \/ RegistryAddFlow

SpecRegistry == InitRegistry /\ [][NextRegistry]_vars

\* ---------------------------------------------------------------------------
\* MaterializeRunSpecification applied to bounded run specifications
\* ---------------------------------------------------------------------------

\* The values of the file: empty, plain, a set and an unset environment
\* variable, a known and an unknown user.
RawValues ==
    {<<>>, <<"v">>, SpecialPrefixEnv \o <<"H">>, SpecialPrefixEnv \o <<"U">>,
     SpecialPrefixUsername \o <<"r">>, SpecialPrefixUsername \o <<"g">>}

InitRun ==
    /\ \E keys \in SUBSET {"K", "J"} :
          \E env \in [keys -> RawValues], user \in RawValues,
             mountpoints \in {<<>>, <<MountSpecification("dir", "/in", TRUE)>>} :
             flowSpecification = [Env |-> env, Mountpoints |-> mountpoints, User |-> user]
    /\ result = [spec |-> ZeroComponentSpecification.Run, err |-> ErrNil]
    /\ pc = "input"
    /\ components = {}
    /\ builds = {}
    /\ executions = {}
    /\ specFiles = EmptyMap
    /\ containers = EmptyMap
    /\ flows = {}
    /\ nextID = 1
    /\ exec = IdleExec
    /\ flow = IdleFlow
    /\ clock = 1
    /\ images = NoImages
    /\ stateDir = Directory(TableNames)

CallMaterializeRunSpecification ==
    /\ pc = "input"
    /\ result' = MaterializeRunSpecification(flowSpecification)
    /\ pc' = "materialized"
    /\ UNCHANGED <<flowSpecification, storeVars, containers, nextID, exec, flow,
                   registryVars>>

NextRun == CallMaterializeRunSpecification

SpecRun == InitRun /\ [][NextRun]_vars

\* ---------------------------------------------------------------------------
\* The join of a stage in the WaitGroup-based flows.Execute (part_004,
\* lines 163-228): the loop over stepExecutions, its goroutines, the
\* channels and the WaitGroup. The activation is held in flow, the
\* containers of the stage in containers.
\* ---------------------------------------------------------------------------

MaxJoinSteps == 2

\* stepExecutions when the loop over the steps of the stage has ended: the
\* execution of every step, named by the number of its container.
StepExecutionsOf(n) ==
    [s \in FirstNames(n) |->
        [ZeroExecutionMetadata EXCEPT !.ID = NameIndex(s), !.ComponentID = ComponentOf(s),
                                      !.FlowID = "flow"]]

\* The state of a container as the loop over the steps left it.
StartedContainer(state, code) == [state |-> state, exitCode |-> code, config |-> <<>>]

\* The goroutine of line 169 when the go statement has been executed.
\* spawnedFor is the execution of the iteration that made it, waitingOn the
\* container named in its call of ContainerWait, errChannel what the client
\* has sent on the error channel of that call.
Waiter(executionMetadata) ==
    [pc |-> "ContainerWait", spawnedFor |-> executionMetadata.ID, waitingOn |-> 0,
     errChannel |-> "empty", status |-> 0]

\* Line 163-164: errorChan and wg are made; the range statement of line 165
\* has fixed the order of the iteration.
InitJoin ==
    /\ \E n \in 1..MaxJoinSteps :
          /\ \E ord \in IterationOrders(FirstNames(n)) :
                flow = [pc |-> "range", stepExecutions |-> StepExecutionsOf(n),
                        order |-> ord, k |-> 0,
                        executionMetadata |-> ZeroExecutionMetadata,
                        info |-> StartedContainer("", 0), waiters |-> <<>>, wg |-> 0,
                        executionErrors |-> <<>>, err |-> ErrNil]
          /\ containers \in
                [1..n -> {StartedContainer("running", 0)} \cup
                         {StartedContainer("exited", code) : code \in ExitCodes}]
    /\ flowSpecification = NoFile
    /\ result = NoResult
    /\ pc = "join"
    /\ components = {}
    /\ builds = {}
    /\ executions = {}
    /\ specFiles = EmptyMap
    /\ flows = {}
    /\ nextID = 1
    /\ exec = IdleExec
    /\ clock = 1
    /\ images = NoImages
    /\ stateDir = Directory(TableNames)

joinUnchanged == <<registryVars, stageVars, storeVars, nextID, exec>>

\* Lines 165-169 and 205-206: the loop variable takes the next entry of
\* stepExecutions, doneChan is made, the WaitGroup is incremented and the
\* goroutine is made; or the loop ends.
JoinRange ==
    /\ flow.pc = "range"
    /\ IF flow.k < Len(flow.order)
       THEN LET executionMetadata == flow.stepExecutions[flow.order[flow.k + 1]]
            IN  flow' = [flow EXCEPT !.k = flow.k + 1,
                                     !.executionMetadata = executionMetadata,
                                     !.wg = flow.wg + 1,
                                     !.waiters = Append(flow.waiters, Waiter(executionMetadata)),
                                     !.pc = "ContainerInspect"]
       ELSE flow' = [flow EXCEPT !.pc = "wg.Wait"]
    /\ UNCHANGED <<joinUnchanged, containers>>

\* Line 171: a goroutine calls ContainerWait with the id it reads from the
\* loop variable executionMetadata, which the goroutines share with the
\* loop.
WaiterContainerWait ==
    /\ \E w \in DOMAIN flow.waiters :
          /\ flow.waiters[w].pc = "ContainerWait"
          /\ flow' = [flow EXCEPT !.waiters[w].waitingOn = flow.executionMetadata.ID,
                                  !.waiters[w].pc = "select"]
    /\ UNCHANGED <<joinUnchanged, containers>>

\* The client of the container engine sends on the error channel of a
\* ContainerWait call: an error of the wait, or nil.
ClientSendsOnErrChannel ==
    /\ \E w \in DOMAIN flow.waiters, value \in {"error", "nil"} :
          /\ flow.waiters[w].pc = "select"
          /\ flow.waiters[w].errChannel = "empty"
          /\ flow' = [flow EXCEPT !.waiters[w].errChannel = value]
    /\ UNCHANGED <<joinUnchanged, containers>>

\* Lines 172-176: the select receives from errChannel. With an error the
\* goroutine goes to the send on errorChan of line 175, with nil to the
\* receive of line 177.
WaiterReceivesErr ==
    /\ \E w \in DOMAIN flow.waiters :
          /\ flow.waiters[w].pc = "select"
          /\ flow.waiters[w].errChannel # "empty"
          /\ flow' = [flow EXCEPT
                        !.waiters[w].pc =
                            IF flow.waiters[w].errChannel = "error"
                            THEN "errorChan <- waitErr"
                            ELSE "<-waitOKBodyChannel"]
    /\ UNCHANGED <<joinUnchanged, containers>>

\* Lines 177-182: the goroutine receives the status of the container it
\* waits on, which the client sends when the container is not running, and
\* goes to the send on errorChan of line 179 or to the send on doneChan of
\* line 182.
WaiterReceivesStatus ==
    /\ \E w \in DOMAIN flow.waiters :
          LET id == flow.waiters[w].waitingOn
          IN  /\ flow.waiters[w].pc = "<-waitOKBodyChannel"
              /\ containers[id].state = "exited"
              /\ flow' = [flow EXCEPT
                            !.waiters[w].status = containers[id].exitCode,
                            !.waiters[w].pc =
                                IF containers[id].exitCode # 0
                                THEN "errorChan <- status"
                                ELSE "doneChan <- true"]
    /\ UNCHANGED <<joinUnchanged, containers>>

\* Lines 188-193: ContainerInspect for the container of the loop variable.
\* With an error Execute goes to the send on doneChan of line 190; with a
\* container that is not running to the send of line 194; with a running
\* container to the next iteration.
JoinContainerInspect ==
    /\ flow.pc = "ContainerInspect"
    /\ \/ flow' = [flow EXCEPT !.err = "Error inspecting container",
                               !.pc = "doneChan <- true (190)"]
       \/ LET info == containers[flow.executionMetadata.ID]
          IN  flow' = [flow EXCEPT !.info = info,
                                   !.pc = IF info.state = "running"
                                          THEN "range"
                                          ELSE "doneChan <- true (194)"]
    /\ UNCHANGED <<joinUnchanged, containers>>

\* A send of Execute on doneChan (line 190 or 194) meets the receive from
\* exitChan in the select of the goroutine made in this iteration (lines
\* 183-184): the goroutine returns and its deferred wg.Done runs; Execute
\* goes on to the send on errorChan of line 191 or 196, or to the next
\* iteration.
DoneChanRendezvous ==
    /\ flow.pc \in {"doneChan <- true (190)", "doneChan <- true (194)"}
    /\ flow.waiters[flow.k].pc = "select"
    /\ flow' = [flow EXCEPT
                  !.waiters[flow.k].pc = "returned",
                  !.wg = flow.wg - 1,
                  !.pc = IF flow.pc = "doneChan <- true (190)"
                         THEN "errorChan <- err (191)"
                         ELSE IF flow.info.exitCode # 0
                         THEN "errorChan <- err (196)"
                         ELSE "range"]
    /\ UNCHANGED <<joinUnchanged, containers>>

\* Lines 207-228: wg.Wait returns when the counter of the WaitGroup is 0;
\* errorChan is closed and the receive loop ends at once, since no
\* goroutine is left to send on it; Execute returns.
JoinWait ==
    /\ flow.pc = "wg.Wait"
    /\ flow.wg = 0
    /\ flow' = [flow EXCEPT !.pc = "returned"]
    /\ UNCHANGED <<joinUnchanged, containers>>

NextJoin ==
    \/ JoinRange
    \/ WaiterContainerWait
    \/ ClientSendsOnErrChannel
    \/ WaiterReceivesErr
    \/ WaiterReceivesStatus
    \/ JoinContainerInspect
    \/ DoneChanRendezvous
    \/ JoinWait
    \/ ContainerExits

SpecJoin == InitJoin /\ [][NextJoin]_vars

\* Every goroutine and Execute itself take the steps they can take, the
\* client delivers what it has, and running containers exit.
JoinFairness ==
    /\ WF_vars(JoinRange)
    /\ WF_vars(WaiterContainerWait)
    /\ WF_vars(WaiterReceivesErr)
    /\ WF_vars(WaiterReceivesStatus)
    /\ WF_vars(JoinContainerInspect)
    /\ WF_vars(DoneChanRendezvous)
    /\ WF_vars(JoinWait)
    /\ WF_vars(ContainerExits)

SpecJoinFair == SpecJoin /\ JoinFairness

\* ---------------------------------------------------------------------------
\* Properties of the stage scheduler (checked under SpecStages)
\* ---------------------------------------------------------------------------

\* The stages (by index) in which a step occurs.
StagesOf(stages, step) ==
    {i \in 1..Len(stages) : \E j \in 1..Len(stages[i]) : stages[i][j] = step}

\* The positions <<stage, place>> at which a step occurs.
Occurrences(stages, step) ==
    {p \in UNION {{<<i, j>> : j \in 1..Len(stages[i])} : i \in 1..Len(stages)} :
        stages[p[1]][p[2]] = step}

\* The dependency graph on the steps: <<s, d>> when step s lists step d.
DependencyEdges(spec) ==
    {e \in (DOMAIN spec.Steps) \X (DOMAIN spec.Steps) :
        /\ e[1] \in DOMAIN spec.Dependencies
        /\ \E i \in 1..Len(spec.Dependencies[e[1]]) : spec.Dependencies[e[1]][i] = e[2]}

RECURSIVE PathsUpTo(_, _, _)
PathsUpTo(edges, nodes, k) ==
    IF k <= 1
    THEN edges
    ELSE LET shorter == PathsUpTo(edges, nodes, k - 1)
         IN  shorter \cup {p \in nodes \X nodes :
                              \E b \in nodes : <<p[1], b>> \in shorter /\ <<b, p[2]>> \in edges}

HasCycle(spec) ==
    LET nodes == DOMAIN spec.Steps
        paths == PathsUpTo(DependencyEdges(spec), nodes, Cardinality(nodes))
    IN  \E s \in nodes : <<s, s>> \in paths

\* C1: for a validated flow specification, every dependency of a step lies in
\* a strictly earlier stage than the step; when stages are returned without
\* error both the step and its dependency have a stage.
C1_DependenciesInEarlierStages ==
    (pc = "calculated" /\ Validated(flowSpecification)) =>
        \A s \in DOMAIN flowSpecification.Dependencies :
            \A k \in 1..Len(flowSpecification.Dependencies[s]) :
                LET d == flowSpecification.Dependencies[s][k]
                IN  /\ \A i \in StagesOf(result.stages, s), j \in StagesOf(result.stages, d) : j < i
                    /\ result.err = ErrNil =>
                          /\ StagesOf(result.stages, s) # {}
                          /\ StagesOf(result.stages, d) # {}

C1_Witness ==
    /\ pc = "calculated"
    /\ Validated(flowSpecification)
    /\ result.err = ErrNil
    /\ Len(result.stages) = 3
    /\ \E s \in DOMAIN flowSpecification.Dependencies : Len(flowSpecification.Dependencies[s]) > 0

\* C2: for a validated flow specification without a dependency cycle the
\* returned stages partition the steps: every step occurs at exactly one
\* position, every name in a stage is a step and no stage is empty.
C2_StagesPartitionSteps ==
    (pc = "calculated" /\ Validated(flowSpecification) /\ ~HasCycle(flowSpecification)) =>
        /\ \A step \in DOMAIN flowSpecification.Steps :
              Cardinality(Occurrences(result.stages, step)) = 1
        /\ \A i \in 1..Len(result.stages) :
              /\ Len(result.stages[i]) > 0
              /\ \A j \in 1..Len(result.stages[i]) :
                    result.stages[i][j] \in DOMAIN flowSpecification.Steps

C2_Witness ==
    /\ pc = "calculated"
    /\ Validated(flowSpecification)
    /\ ~HasCycle(flowSpecification)
    /\ Len(result.stages) = 2
    /\ Len(result.stages[1]) = 2
    /\ \E s \in DOMAIN flowSpecification.Dependencies : Len(flowSpecification.Dependencies[s]) = 0

\* C3: a flow specification with a dependency cycle among its steps yields
\* ErrCyclicDependency and an empty list of stages.
C3_CycleRejectedWithoutStages ==
    (pc = "calculated" /\ HasCycle(flowSpecification)) =>
        /\ result.err = ErrCyclicDependency
        /\ result.stages = <<>>

\* A cycle that is found only after a first stage has been peeled off.
C3_Witness ==
    /\ pc = "calculated"
    /\ Validated(flowSpecification)
    /\ HasCycle(flowSpecification)
    /\ \E s \in DOMAIN flowSpecification.Steps : s \notin DOMAIN flowSpecification.Dependencies
    /\ \A s \in DOMAIN flowSpecification.Steps : <<s, s>> \notin DependencyEdges(flowSpecification)
    /\ result.err = ErrCyclicDependency

\* ---------------------------------------------------------------------------
\* Properties of components.Execute (checked under SpecExec)
\* ---------------------------------------------------------------------------

Started(id) == id \in DOMAIN containers /\ containers[id].state \in {"running", "exited"}

HasRow(id) == \E row \in executions : row.ID = id

\* C4: the Execution row is committed before ContainerStart is invoked: no
\* started container lacks its row, the row is in the store whenever the
\* start is about to be requested, and it is still there when Execute
\* returns the error of a failed start.
C4_ExecutionRowBeforeStart ==
    /\ \A id \in DOMAIN containers : Started(id) => HasRow(id)
    /\ exec.pc = "start" => exec.executionMetadata \in executions
    /\ (exec.pc = "returned" /\ exec.err = "Error starting container") =>
          exec.executionMetadata \in executions

C4_Witness ==
    /\ exec.pc = "returned"
    /\ exec.err = "Error starting container"
    /\ containers[exec.executionMetadata.ID].state = "created"
    /\ exec.executionMetadata \in executions

\* The failures of components.Execute up to and including container creation.
FailuresBeforeInsert ==
    {ErrBuildNotFound, ErrEmptyBuildID, ErrEmptyComponentID, ErrComponentNotFound,
     "Could not open specification file", "Could not materialize component specification",
     "No mount provided for required mountpoint", "Too many mounts in host configuration",
     "Error creating container"}

\* C10: every Execution row carries the id of a container that was created,
\* and a failure of the build lookup, the component lookup, the loading or
\* materialization of the specification, the required-mount check or the
\* container creation leaves the executions table as it was at the call.
C10_RowsOnlyForCreatedContainers ==
    /\ \A row \in executions : row.ID \in DOMAIN containers
    /\ (exec.pc = "returned" /\ exec.err \in FailuresBeforeInsert) =>
          executions = exec.entryExecutions

C10_Witness ==
    /\ exec.pc = "returned"
    /\ exec.err = "Error creating container"
    /\ executions = exec.entryExecutions
    /\ exec.executionMetadata.ID \notin DOMAIN containers

\* The specification file of the component of the build being executed.
ExecSpecFile == specFiles[exec.buildMetadata.ComponentID]

\* The targets of the bindings passed to components.Execute.
BoundTargets == {exec.mounts[i].Target : i \in 1..Len(exec.mounts)}

\* components.Execute has got as far as its loop over the mountpoints.
MountLoopReached ==
    \/ exec.pc \in {"create", "insert", "start"}
    \/ /\ exec.pc = "returned"
       /\ exec.err \in {"No mount provided for required mountpoint",
                         "Too many mounts in host configuration",
                         "Error creating container",
                         "Error inserting execution into state database",
                         "Error starting container", ErrNil}
    \/ exec.pc = "panic" /\ exec.err = PanicMounts

\* C18: when the loop over the mountpoints is reached and some required
\* mountpoint has no binding, components.Execute returns the
\* required-mount-missing error, no container is created and no Execution
\* row is inserted.
C18_RequiredMountMissingFails ==
    (/\ MountLoopReached
     /\ \E j \in 1..Len(ExecSpecFile.Run.Mountpoints) :
           /\ ExecSpecFile.Run.Mountpoints[j].Required
           /\ ExecSpecFile.Run.Mountpoints[j].Mountpoint \notin BoundTargets) =>
        /\ exec.pc = "returned"
        /\ exec.err = "No mount provided for required mountpoint"
        /\ exec.executionMetadata.ID \notin DOMAIN containers
        /\ executions = exec.entryExecutions

\* components.Execute has passed the computation of the environment.
EnvComputed == exec.pc \in {"create", "insert", "start"}

\* C19: whenever components.Execute has read and materialized the
\* specification it goes on without a panic, and the environment of the
\* container it configures is the merge of the materialized run.env and the
\* env argument, the argument winning on common keys.
C19_ContainerEnvIsMerge ==
    /\ exec.pc = "panic" => exec.err # PanicEnv
    /\ EnvComputed =>
          exec.config.Env =
              [key \in (DOMAIN ExecSpecFile.Run.Env) \cup (DOMAIN exec.env) |->
                  IF key \in DOMAIN exec.env
                  THEN exec.env[key]
                  ELSE MaterializeEnv(ExecSpecFile.Run.Env[key])]

\* C20: the mounts of the host configuration passed to ContainerCreate are
\* one mount for each declared mountpoint with a binding, in the order of the
\* declarations, with the method and source of a binding of that target;
\* their number is the number of distinct targets of the bindings and none
\* of them is an empty mount.
C20_MountsAreDeclaredBindings ==
    exec.pc \in {"create", "insert", "start"} =>
        LET bound(mountpoint) == mountpoint.Mountpoint \in BoundTargets
            declared == SelectSeq(ExecSpecFile.Run.Mountpoints, bound)
            passed == exec.config.Mounts
        IN  /\ Len(passed) = Len(declared)
            /\ Len(passed) = Cardinality(BoundTargets)
            /\ \A k \in 1..Len(passed) :
                  /\ passed[k] # ZeroMount
                  /\ k <= Len(declared) =>
                        /\ passed[k].Target = declared[k].Mountpoint
                        /\ \E i \in 1..Len(exec.mounts) :
                              /\ exec.mounts[i].Target = passed[k].Target
                              /\ exec.mounts[i].Method = passed[k].Type
                              /\ exec.mounts[i].Source = passed[k].Source

\* ---------------------------------------------------------------------------
\* Properties of flows.Execute (checked under Spec)
\* ---------------------------------------------------------------------------

StageSteps(k) == {flow.stages[k][j] : j \in 1..Len(flow.stages[k])}

\* The stage for whose step an execution id was generated: the stage of the
\* step recorded with it or, for the call in progress or failed, the current
\* stage.
OwnerStage(id) ==
    IF \E s \in DOMAIN flow.componentExecutions : flow.componentExecutions[s].ID = id
    THEN LET s == CHOOSE x \in DOMAIN flow.componentExecutions :
                      flow.componentExecutions[x].ID = id
         IN  CHOOSE k \in 1..Len(flow.stages) : s \in StageSteps(k)
    ELSE flow.stageNum

\* Every step of the stage has a container that exited with code 0.
StageSucceeded(k) ==
    \A t \in StageSteps(k) :
        /\ t \in DOMAIN flow.componentExecutions
        /\ flow.componentExecutions[t].ID \in DOMAIN containers
        /\ containers[flow.componentExecutions[t].ID].state = "exited"
        /\ containers[flow.componentExecutions[t].ID].exitCode = 0

\* C5: a container or an Execution row of a step of a stage exists, or
\* components.Execute is active for it, only when every step of every earlier
\* stage has a container that exited with code 0.
C5_StagesStrictlySequential ==
    /\ \A id \in (DOMAIN containers) \cup {row.ID : row \in executions} :
          \A k \in 1..(OwnerStage(id) - 1) : StageSucceeded(k)
    /\ exec.pc # "idle" => \A k \in 1..(flow.stageNum - 1) : StageSucceeded(k)

C5_Witness ==
    /\ flow.stageNum = 2
    /\ \E id \in DOMAIN containers : OwnerStage(id) = 2 /\ containers[id].state = "running"
    /\ StageSucceeded(1)

\* C6: when flows.Execute has returned, no container it started in the
\* stage it was executing is still running.
C6_StartedContainersAwaited ==
    flow.pc = "returned" =>
        \A s \in DOMAIN flow.stepExecutions :
            containers[flow.stepExecutions[s].ID].state # "running"

\* The steps of the current stage whose container exited with a code other
\* than 0.
FailedSteps ==
    {s \in DOMAIN flow.stepExecutions :
        /\ containers[flow.stepExecutions[s].ID].state = "exited"
        /\ containers[flow.stepExecutions[s].ID].exitCode # 0}

\* C7: the error flows.Execute returns for a failed stage names every step
\* of the stage whose container failed.
C7_ErrorNamesEveryFailedStep ==
    (flow.pc = "returned" /\ flow.err.kind = "exited with non-zero code") =>
        FailedSteps \subseteq flow.err.steps

\* Some step of the flow specification file has no build for its component.
SomeStepWithoutBuild ==
    /\ flowSpecification # NoFile
    /\ \E s \in DOMAIN flowSpecification.Steps :
          MostRecentBuilds(builds, flowSpecification.Steps[s]) = {}

\* C8: if some step has no build for its component, flows.Execute starts
\* nothing (no call of components.Execute, no container, no Execution row)
\* and returns an empty map with an error.
C8_NothingStartedWithoutBuilds ==
    SomeStepWithoutBuild =>
        /\ containers = EmptyMap
        /\ executions = {}
        /\ exec.pc = "idle"
        /\ flow.pc = "returned" => (flow.err.kind # ErrNil /\ flow.returned = EmptyMap)

C8_Witness ==
    /\ SomeStepWithoutBuild
    /\ flow.pc = "returned"
    /\ flow.err.kind = ErrBuildNotFound
    /\ DOMAIN flow.buildIDs # {}
    /\ containers = EmptyMap

\* The steps for which components.Execute has been called.
AttemptedSteps ==
    UNION {StageSteps(k) : k \in 1..(flow.stageNum - 1)}
    \cup {flow.stages[flow.stageNum][j] :
             j \in 1..Min(flow.started + 1, Len(flow.stages[flow.stageNum]))}

\* flows.Execute has returned from the loop over the stages.
ReturnedAfterResolution ==
    /\ flow.pc = "returned"
    /\ flow.stageNum >= 1

\* C9: the map returned after build resolution holds, under its step, the
\* metadata of the execution of every started container, and only steps for
\* which components.Execute was called.
C9_ReturnedMapHoldsStartedSteps ==
    ReturnedAfterResolution =>
        /\ \A id \in DOMAIN containers :
              Started(id) => \E s \in DOMAIN flow.returned : flow.returned[s].ID = id
        /\ \A s \in DOMAIN flow.returned :
              /\ Started(flow.returned[s].ID)
              /\ flow.returned[s] \in executions
              /\ flow.returned[s].BuildID = flow.buildIDs[s]
              /\ s \in AttemptedSteps

\* A step fails to start after another step of the stage was started.
C9_Witness ==
    /\ ReturnedAfterResolution
    /\ flow.err.kind = "Error starting container"
    /\ DOMAIN flow.returned # {}
    /\ flow.started >= 1

\* The number of steps on the longest chain of dependency edges that ends in
\* a step, less one (for edges without a cycle).
RECURSIVE Level(_, _)
Level(edges, step) ==
    LET deps == {e[2] : e \in {x \in edges : x[1] = step}}
    IN  IF deps = {}
        THEN 0
        ELSE LET levels == {Level(edges, d) : d \in deps}
             IN  1 + (CHOOSE x \in levels : \A y \in levels : y <= x)

\* The level of every step of a specification.
Levels(spec) ==
    LET edges == DependencyEdges(spec)
    IN  [step \in DOMAIN spec.Steps |-> Level(edges, step)]

\* The number of steps on the longest dependency chain.
LongestChain(spec) ==
    IF DOMAIN spec.Steps = {}
    THEN 0
    ELSE LET levels == {Levels(spec)[step] : step \in DOMAIN spec.Steps}
         IN  1 + (CHOOSE x \in levels : \A y \in levels : y <= x)

\* The assignments of the stage numbers 1..k to the steps that put every
\* dependency of a step in an earlier stage than the step.
ValidStagings(spec, k) ==
    LET edges == DependencyEdges(spec)
    IN  {staging \in [DOMAIN spec.Steps -> 1..k] :
            \A e \in edges : staging[e[2]] < staging[e[1]]}

\* C12: for a validated flow specification without a dependency cycle every
\* step is in the stage after the latest stage of its dependencies (the first
\* stage when it has none), the number of stages is the number of steps on
\* the longest dependency chain, and no valid staging uses fewer stages.
C12_StepsInEarliestStage ==
    (pc = "calculated" /\ Validated(flowSpecification) /\ ~HasCycle(flowSpecification)) =>
        LET level == Levels(flowSpecification)
        IN  /\ \A step \in DOMAIN flowSpecification.Steps :
                  StagesOf(result.stages, step) = {level[step] + 1}
            /\ Len(result.stages) = LongestChain(flowSpecification)
            /\ DOMAIN flowSpecification.Steps # {} =>
                  ValidStagings(flowSpecification, Len(result.stages) - 1) = {}

\* Two steps in the first stage, one of them the dependency of a third step.
C12_Witness ==
    /\ pc = "calculated"
    /\ Validated(flowSpecification)
    /\ result.err = ErrNil
    /\ Len(result.stages) = 2
    /\ Len(result.stages[1]) = 2
    /\ Cardinality(DependencyEdges(flowSpecification)) = 1

\* ---------------------------------------------------------------------------
\* Properties of MaterializeFlowSpecification (checked under SpecMaterialize)
\* ---------------------------------------------------------------------------

\* Some dependencies key is not a step.
UnknownKey(spec) == \E k \in DOMAIN spec.Dependencies : k \notin DOMAIN spec.Steps

\* Some dependency value is not a step.
UnknownValue(spec) ==
    \E k \in DOMAIN spec.Dependencies :
        \E i \in 1..Len(spec.Dependencies[k]) : spec.Dependencies[k][i] \notin DOMAIN spec.Steps

\* Some step maps to the empty component id.
EmptyComponent(spec) == \E step \in DOMAIN spec.Steps : spec.Steps[step] = ""

ValidationErrors == {"Invalid component for step", "Unknown step in dependencies"}

\* C11: a raw flow specification with a dependencies key that is no step, a
\* dependency value that is no step or a step without a component is
\* rejected with a validation error, and no stages are computed for it: the
\* specification comes back as it was given.
C11_InvalidSpecificationRejected ==
    (/\ pc = "materialized"
     /\ \/ UnknownKey(flowSpecification)
        \/ UnknownValue(flowSpecification)
        \/ EmptyComponent(flowSpecification)) =>
        /\ result.err \in ValidationErrors
        /\ result.spec = flowSpecification

\* A dependency on a name that is no step, listed after a dependency that is.
C11_Witness ==
    /\ pc = "materialized"
    /\ ~UnknownKey(flowSpecification)
    /\ ~EmptyComponent(flowSpecification)
    /\ \E k \in DOMAIN flowSpecification.Dependencies :
          /\ Len(flowSpecification.Dependencies[k]) = 2
          /\ flowSpecification.Dependencies[k][1] \in DOMAIN flowSpecification.Steps
          /\ flowSpecification.Dependencies[k][2] \notin DOMAIN flowSpecification.Steps
    /\ result.err = "Unknown step in dependencies"

\* C13: the Stages of the specification MaterializeFlowSpecification returns
\* is empty or a result of CalculateStages on the steps and dependencies,
\* never the value of the Stages field of its argument.
C13_InputStagesNeverReturned ==
    pc = "materialized" =>
        result.spec.Stages \in
            {<<>>} \cup {CalculateStages(flowSpecification, ord).stages :
                            ord \in IterationOrders(DOMAIN flowSpecification.Steps)}

\* ---------------------------------------------------------------------------
\* Properties of the state database (checked under SpecStore)
\* ---------------------------------------------------------------------------

\* The table an operation works on.
TableName(op) ==
    IF op \in {"InsertComponent", "SelectComponentByID", "DeleteComponentByID"}
    THEN "components"
    ELSE IF op \in {"InsertFlow", "SelectFlowByID"} THEN "flows" ELSE "builds"

Stored(rows, id) == \E row \in rows : row.ID = id

\* C14: InsertComponent, InsertBuild and InsertFlow with an id already in
\* the table return an error and leave every table as it was; with a fresh id
\* they return no error and add exactly the row of the given values.
C14_DuplicateInsertRejected ==
    result.op \in {"InsertComponent", "InsertBuild", "InsertFlow"} =>
        LET name == TableName(result.op)
            before == result.before[name]
        IN  IF Stored(before, result.arg.ID)
            THEN /\ result.err # ErrNil
                 /\ Tables = result.before
            ELSE /\ result.err = ErrNil
                 /\ Tables = [result.before EXCEPT ![name] = before \cup {RowOf(result.arg)}]
                 /\ Cardinality(Tables[name]) = Cardinality(before) + 1

\* A build inserted under the id of a stored build of another component.
C14_Witness ==
    /\ result.op = "InsertBuild"
    /\ result.err # ErrNil
    /\ \E row \in builds : row.ID = result.arg.ID /\ row.ComponentID # result.arg.ComponentID

\* C15: selecting by the id of a stored record returns, without error, the
\* values last inserted under that id, created_at truncated to whole seconds.
C15_SelectReturnsInserted ==
    (/\ result.op \in {"SelectComponentByID", "SelectBuildByID", "SelectFlowByID"}
     /\ Stored(Tables[TableName(result.op)], result.arg)) =>
        /\ result.err = ErrNil
        /\ result.arg \in DOMAIN result.inserted[TableName(result.op)]
        /\ LET inserted == result.inserted[TableName(result.op)][result.arg]
           IN  result.value = [inserted EXCEPT !.CreatedAt = TimeUnix(Unix(@))]

\* A component selected among two: its time has lost the part of a second.
C15_Witness ==
    /\ result.op = "SelectComponentByID"
    /\ result.err = ErrNil
    /\ Cardinality(components) = 2
    /\ result.value.CreatedAt # result.inserted.components[result.arg].CreatedAt
    /\ result.value.SpecificationPath = "two.json"

\* C16: selecting by an id that is not stored returns the not-found error of
\* the table and a zero-valued record and leaves the tables as they were.
C16_SelectMissReturnsNotFound ==
    (/\ result.op \in {"SelectComponentByID", "SelectBuildByID", "SelectFlowByID"}
     /\ ~Stored(Tables[TableName(result.op)], result.arg)) =>
        /\ Tables = result.before
        /\ result.op = "SelectComponentByID" =>
              (result.err = ErrComponentNotFound /\ result.value = ZeroComponentMetadata)
        /\ result.op = "SelectBuildByID" =>
              (result.err = ErrBuildNotFound /\ result.value = ZeroBuildMetadata)
        /\ result.op = "SelectFlowByID" =>
              (result.err = ErrFlowNotFound /\ result.value = ZeroFlowMetadata)

\* A flow looked up under an id that is not stored while another flow is.
C16_Witness ==
    /\ result.op = "SelectFlowByID"
    /\ flows # {}
    /\ ~Stored(flows, result.arg)
    /\ result.err = ErrFlowNotFound

\* C17: SelectMostRecentBuildForComponent returns ErrBuildNotFound exactly
\* when no build of the component is stored; otherwise it returns a stored
\* build of the component that no other build of the component is later
\* than, and the builds of other components do not affect the outcome.
C17_MostRecentBuildOfComponent ==
    result.op = "SelectMostRecentBuildForComponent" =>
        LET own == {row \in builds : row.ComponentID = result.arg}
        IN  /\ result.err \in {ErrNil, ErrBuildNotFound}
            /\ result.err = ErrBuildNotFound <=> own = {}
            /\ result.err = ErrNil =>
                  \E row \in own :
                      /\ result.value = Scanned(row)
                      /\ \A other \in own : other.CreatedAt <= row.CreatedAt
            /\ [build |-> result.value, err |-> result.err]
                  \in SelectMostRecentBuildForComponent(own, result.arg)

\* Two builds of the component from different seconds and a build of the
\* other component.
C17_Witness ==
    /\ result.op = "SelectMostRecentBuildForComponent"
    /\ result.err = ErrNil
    /\ LET own == {row \in builds : row.ComponentID = result.arg}
       IN  /\ \E row, other \in own : row.CreatedAt < other.CreatedAt
           /\ builds # own

\* ---------------------------------------------------------------------------
\* Properties of the builds (checked under SpecBuild)
\* ---------------------------------------------------------------------------

\* C21: the build id a CreateBuild request is given is the id of no build
\* made by an earlier request: no row that was in the builds table when the
\* request came carries it.
C21_FreshBuildID ==
    (result.op = "CreateBuild" /\ result.value.ID # EmptyBuildID) =>
        \A row \in result.before.builds : row.ID # result.value.ID

\* C22: CreateBuild adds a row to the builds table only when the image was
\* built, and a call that fails leaves the builds table as it was and,
\* unless the component was not found, returns the build metadata it
\* generated for the component together with the error.
C22_FailedBuildNotPersisted ==
    result.op = "CreateBuild" =>
        /\ builds # result.before.builds =>
              /\ result.err = ErrNil
              /\ result.value.ID \in images
        /\ result.err # ErrNil =>
              /\ builds = result.before.builds
              /\ result.err # ErrComponentNotFound =>
                    /\ result.value.ComponentID = result.arg
                    /\ result.value.ID =
                          GenerateBuildID(result.arg, Unix(result.value.CreatedAt))

\* The values of a map, and the sequences without a repeated element.
Range(m) == {m[k] : k \in DOMAIN m}

NoRepeats(seq) == \A i, j \in 1..Len(seq) : i # j => seq[i] # seq[j]

\* The steps of the stored flow with the given id, from its specification
\* file.
StepsOfFlow(flowID) == specFiles[SelectFlowByID(flows, flowID).flow.SpecificationPath].Steps

C23_WitnessFailure ==
    /\ result.op = "Build"
    /\ result.err \notin {ErrNil, PanicNilError}
    /\ Len(result.calls) = 2
    /\ DOMAIN result.value # {}

\* ---------------------------------------------------------------------------
\* Properties of the registration (checked under SpecRegistry)
\* ---------------------------------------------------------------------------

\* The file at a path opens, decodes and is a flow specification without an
\* empty component, an unknown step, a cycle or an invalid mount method.
SoundFlowSpecificationAt(path) ==
    /\ path \in DOMAIN specFiles
    /\ specFiles[path] # NoFile
    /\ "Steps" \in DOMAIN specFiles[path]
    /\ LET file == specFiles[path]
       IN  /\ ~EmptyComponent(file)
           /\ ~UnknownKey(file)
           /\ ~UnknownValue(file)
           /\ ~HasCycle(file)
           /\ \A step \in DOMAIN file.Mounts :
                 \A i \in 1..Len(file.Mounts[step]) :
                     file.Mounts[step][i].Method \in ValidMountMethods

\* C24: AddFlow changes the flows table only by adding the row of the given
\* id and absolute specification path, and only when the id is not empty
\* and the file at the path is a sound flow specification; when the id is
\* empty or the file is not sound it returns an error and leaves the table
\* as it was; every stored flow names a sound flow specification.
C24_OnlyValidFlowsRegistered ==
    /\ result.op = "AddFlow" =>
          LET id == result.arg[1]
              path == AbsolutePath(result.arg[2])
          IN  /\ flows # result.before.flows =>
                    /\ id # ""
                    /\ SoundFlowSpecificationAt(path)
                    /\ result.err = ErrNil
                    /\ \E row \in flows :
                          /\ row.ID = id
                          /\ row.SpecificationPath = path
                          /\ flows = result.before.flows \cup {row}
              /\ (id = "" \/ ~SoundFlowSpecificationAt(path)) =>
                    /\ result.err # ErrNil
                    /\ flows = result.before.flows
              /\ result.err # ErrNil => flows = result.before.flows
    /\ \A row \in flows : SoundFlowSpecificationAt(row.SpecificationPath)

\* A flow whose dependencies form a cycle was turned down.
C24_Witness ==
    /\ result.op = "AddFlow"
    /\ result.arg = <<"flow", "cyclic.json">>
    /\ result.err = "Error reading specification"
    /\ flows = result.before.flows

\* The component specification at a path opens and parses.
SoundComponentSpecificationAt(path) ==
    /\ path \in DOMAIN specFiles
    /\ ReadComponentSpecification(specFiles[path]).err = ErrNil

\* C25: AddComponent adds no row to the components table when the file at
\* the specification path of the component is missing or is no valid
\* component specification.
C25_ComponentSpecificationValidated ==
    (result.op = "AddComponent" /\ components # result.before.components) =>
        \A row \in components \ result.before.components :
            SoundComponentSpecificationAt(AbsolutePath(row.SpecificationPath))

\* C26: AddComponent, through GenerateComponentMetadata, returns ErrEmptyID
\* for an empty id, otherwise ErrEmptyComponentPath for an empty component
\* path, otherwise ErrInvalidComponentType for a type that is neither
\* service nor task, each with the zero metadata and the components table
\* unchanged; for other arguments the metadata carries the id, type and
\* component path given, and the specification path given or, when that is
\* empty, component.json in the component path.
C26_ComponentMetadataValidated ==
    result.op = "AddComponent" =>
        LET id == result.arg[1]
            componentType == result.arg[2]
            componentPath == result.arg[3]
            specificationPath == result.arg[4]
            rejected(err) ==
                /\ result.err = err
                /\ result.value = ZeroComponentMetadata
                /\ components = result.before.components
        IN  IF id = ""
            THEN rejected(ErrEmptyID)
            ELSE IF componentPath = ""
            THEN rejected(ErrEmptyComponentPath)
            ELSE IF componentType \notin {"service", "task"}
            THEN rejected(ErrInvalidComponentType)
            ELSE /\ result.err \notin
                       {ErrEmptyID, ErrEmptyComponentPath, ErrInvalidComponentType}
                 /\ result.value.ID = id
                 /\ result.value.ComponentType = componentType
                 /\ result.value.ComponentPath = componentPath
                 /\ result.value.SpecificationPath =
                       IF specificationPath = ""
                       THEN componentPath \o "/component.json"
                       ELSE specificationPath

\* An unknown type together with an empty component path was turned down
\* for the path, when a component was stored already.
C26_Witness ==
    /\ result.op = "AddComponent"
    /\ result.arg = <<"c1", "job", "", "">>
    /\ result.err = ErrEmptyComponentPath
    /\ components # {}

\* A component registered without a specification path.
C26_WitnessDefault ==
    /\ result.op = "AddComponent"
    /\ result.arg[4] = ""
    /\ result.err = ErrNil
    /\ \E row \in components : row.SpecificationPath = "dir/component.json"

\* C27: a removal of a component succeeds, takes the row of the given id
\* and no other row out of the components table, and leaves the builds,
\* executions and flows tables as they were.
C27_DeleteRemovesOneRow ==
    result.op = "RemoveComponent" =>
        /\ result.err = ErrNil
        /\ components = {row \in result.before.components : row.ID # result.arg}
        /\ builds = result.before.builds
        /\ executions = result.before.executions
        /\ flows = result.before.flows

\* A component with a build and an execution was removed while another
\* component and a flow were stored.
C27_Witness ==
    /\ result.op = "RemoveComponent"
    /\ \E row \in result.before.components : row.ID = result.arg
    /\ \E build \in builds : build.ComponentID = result.arg
    /\ \E execution \in executions : execution.ComponentID = result.arg
    /\ components # {}
    /\ flows # {}

\* The removal of a component that is not stored.
C27_WitnessAbsent ==
    /\ result.op = "RemoveComponent"
    /\ \A row \in result.before.components : row.ID # result.arg
    /\ components # {}

C28_WitnessFresh ==
    /\ result.op = "Init"
    /\ result.err = ErrNil
    /\ result.before.stateDir = NoObject

\* ---------------------------------------------------------------------------
\* Properties of MaterializeRunSpecification (checked under SpecRun)
\* ---------------------------------------------------------------------------

\* The name after the prefix user: is a user of the host.
KnownUser(value) ==
    HasPrefix(value, SpecialPrefixUsername) =>
        StripPrefix(value, SpecialPrefixUsername) \in DOMAIN HostUsers

\* What a value stands for in an env entry: the value of the host
\* environment variable after env:, and itself otherwise.
SubstitutedEnv(value) ==
    IF HasPrefix(value, SpecialPrefixEnv)
    THEN Getenv(StripPrefix(value, SpecialPrefixEnv))
    ELSE value

\* What a value stands for in the user field: as in an env entry, and the
\* uid and gid of the host user after user:.
SubstitutedUser(value) ==
    IF HasPrefix(value, SpecialPrefixUsername)
    THEN LET name == StripPrefix(value, SpecialPrefixUsername)
         IN  HostUsers[name].Uid \o <<":">> \o HostUsers[name].Gid
    ELSE SubstitutedEnv(value)

\* C29: MaterializeRunSpecification fails when the user field names an
\* unknown user after user:, and otherwise returns the run specification
\* with the user field and every env value replaced by what they stand for:
\* env:NAME by the value of the host environment variable, user:NAME in the
\* user field by uid:gid, and every other value, the empty one among them,
\* by itself.
C29_SpecialValuesSubstituted ==
    pc = "materialized" =>
        LET raw == flowSpecification
        IN  IF ~KnownUser(raw.User)
            THEN result.err # ErrNil
            ELSE /\ result.err = ErrNil
                 /\ result.spec.User = SubstitutedUser(raw.User)
                 /\ DOMAIN result.spec.Env = DOMAIN raw.Env
                 /\ \A key \in DOMAIN raw.Env :
                       result.spec.Env[key] = SubstitutedEnv(raw.Env[key])

\* ---------------------------------------------------------------------------
\* Properties of the failures of MaterializeFlowSpecification after the
\* validation (checked under SpecMaterialize)
\* ---------------------------------------------------------------------------

\* The binding as MaterializeMountConfiguration returns it: the source with
\* its env: value substituted and made absolute.
MaterializedBinding(binding) ==
    [Source |-> FilepathAbs(MaterializeEnv(binding.Source)),
     Target |-> binding.Target,
     Method |-> binding.Method]

\* C30: when MaterializeFlowSpecification returns the cyclic dependency
\* error, the specification returned has the steps and dependencies of the
\* argument, no stages, no mounts and no env; when it returns the invalid
\* mount method error, the specification has the steps and dependencies of
\* the argument, stages calculated from them, no env, and a mounts map with
\* one key, a step with an invalid binding, mapped to the list of one
\* binding, the first invalid binding of that step, materialized.
C30_PartialSpecificationOnFailure ==
    pc = "materialized" =>
        LET raw == flowSpecification
        IN  /\ result.err = ErrCyclicDependency =>
                  result.spec = [Steps |-> raw.Steps, Dependencies |-> raw.Dependencies,
                                 Stages |-> <<>>, Mounts |-> EmptyMap, Env |-> EmptyMap]
            /\ result.err = ErrInvalidMountMethod =>
                  /\ result.spec.Steps = raw.Steps
                  /\ result.spec.Dependencies = raw.Dependencies
                  /\ result.spec.Env = EmptyMap
                  /\ \E ord \in IterationOrders(DOMAIN raw.Steps) :
                        /\ CalculateStages(raw, ord).err = ErrNil
                        /\ result.spec.Stages = CalculateStages(raw, ord).stages
                  /\ \E step \in DOMAIN raw.Mounts :
                        \E i \in 1..Len(raw.Mounts[step]) :
                            /\ raw.Mounts[step][i].Method \notin {"bind", "volume", "tmpfs"}
                            /\ \A j \in 1..(i - 1) :
                                  raw.Mounts[step][j].Method \in {"bind", "volume", "tmpfs"}
                            /\ result.spec.Mounts =
                                  (step :> <<MaterializedBinding(raw.Mounts[step][i])>>)

\* The second of three bindings of a step is invalid, another step has an
\* invalid binding too, and the specification has a step and an env section.
C30_Witness ==
    /\ pc = "materialized"
    /\ result.err = ErrInvalidMountMethod
    /\ DOMAIN flowSpecification.Mounts = {"a", "b"}
    /\ DOMAIN result.spec.Mounts = {"a"}
    /\ result.spec.Stages # <<>>
    /\ flowSpecification.Env # EmptyMap

\* A cycle in a specification that has a mounts and an env section.
C30_WitnessCycle ==
    /\ pc = "materialized"
    /\ result.err = ErrCyclicDependency
    /\ flowSpecification.Mounts # EmptyMap
    /\ flowSpecification.Env # EmptyMap


\* The bindings of the mounts section of a specification, as step and index.
BindingsOf(mounts) ==
    UNION {{<<step, i>> : i \in 1..Len(mounts[step])} : step \in DOMAIN mounts}

\* C31: a flow specification with a mount binding whose method is not one
\* of bind, volume and tmpfs fails to materialize, and the invalid mount
\* method error is returned only for such a specification; when the
\* materialization succeeds, every binding of every step is returned with
\* its target and method unchanged and with its source an absolute path:
\* the source itself when it starts with "/", the value of the environment
\* variable NAME for a source env:NAME, and relative values joined to the
\* working directory.
C31_MountBindingsMaterialized ==
    pc = "materialized" =>
        LET raw == flowSpecification
            rejected == {b \in BindingsOf(raw.Mounts) :
                            raw.Mounts[b[1]][b[2]].Method \notin {"bind", "volume", "tmpfs"}}
            substituted(source) ==
                IF Len(source) >= 4 /\ SubSeq(source, 1, 4) = <<"e", "n", "v", ":">>
                THEN LET name == SubSeq(source, 5, Len(source))
                     IN  IF name \in DOMAIN HostEnv THEN HostEnv[name] ELSE <<>>
                ELSE source
            absolute(path) ==
                IF path = <<>>
                THEN Cwd
                ELSE IF Head(path) = "/" THEN path ELSE Cwd \o <<"/">> \o path
        IN  /\ rejected # {} => result.err # ErrNil
            /\ result.err = ErrInvalidMountMethod => rejected # {}
            /\ result.err = ErrNil =>
                  /\ DOMAIN result.spec.Mounts = DOMAIN raw.Mounts
                  /\ \A step \in DOMAIN raw.Mounts :
                        /\ Len(result.spec.Mounts[step]) = Len(raw.Mounts[step])
                        /\ \A i \in 1..Len(raw.Mounts[step]) :
                              LET binding == result.spec.Mounts[step][i]
                              IN  /\ binding.Target = raw.Mounts[step][i].Target
                                  /\ binding.Method = raw.Mounts[step][i].Method
                                  /\ Head(binding.Source) = "/"
                                  /\ binding.Source =
                                        absolute(substituted(raw.Mounts[step][i].Source))

\* A specification materialized with three bindings: an env: source of a
\* set variable, an absolute source and an env: source of an unset variable.
C31_Witness ==
    /\ pc = "materialized"
    /\ result.err = ErrNil
    /\ "a" \in DOMAIN flowSpecification.Mounts
    /\ Len(flowSpecification.Mounts["a"]) = 3
    /\ result.spec.Mounts["a"][1].Source = <<"/", "w", "/", "h">>
    /\ result.spec.Mounts["a"][2].Source = <<"/", "r">>
    /\ result.spec.Mounts["a"][3].Source = <<"/", "w">>

\* A specification rejected for the one binding it has.
C31_WitnessRejected ==
    /\ pc = "materialized"
    /\ result.err = ErrInvalidMountMethod
    /\ DOMAIN flowSpecification.Mounts = {"a"}
    /\ Len(flowSpecification.Mounts["a"]) = 1


\* The steps for which flows.Execute has called components.Execute, in the
\* order of the calls: the steps of the stages before the current one and
\* the steps of the current stage up to the one the loop is at.
CalledSteps ==
    LET flat[k \in 0..Len(flow.stages)] ==
            IF k = 0 THEN <<>> ELSE flat[k - 1] \o flow.stages[k]
        stage == flow.stages[flow.stageNum]
        reached == IF flow.pc = "startStep" THEN flow.started ELSE flow.started + 1
    IN  IF flow.stageNum = 0
        THEN <<>>
        ELSE flat[flow.stageNum - 1] \o SubSeq(stage, 1, Min(reached, Len(stage)))

\* The ids of the executions flows.Execute has recorded for its steps.
RecordedIDs == {flow.componentExecutions[s].ID : s \in DOMAIN flow.componentExecutions}

\* C32: during one flows.Execute no step is called twice; the steps
\* recorded have executions with different ids; apart from the containers
\* and Execution rows of the recorded steps there is at most the one of the
\* step whose call is in progress or has failed; there are no more
\* containers than calls, and no more Execution rows of a component than
\* calls for steps of that component. components.Execute is called only for
\* a step it was not called for before; when a call returns an error, or a
\* container is seen to have exited with a code other than 0, flows.Execute
\* returns, and once it has returned no container is created and no row is
\* inserted.
C32_StepsExecutedOnce ==
    /\ [](/\ NoRepeats(CalledSteps)
          /\ \A s, t \in DOMAIN flow.componentExecutions :
                s # t => flow.componentExecutions[s].ID # flow.componentExecutions[t].ID
          /\ DOMAIN flow.componentExecutions \subseteq Range(CalledSteps)
          /\ Cardinality((DOMAIN containers) \ RecordedIDs) <= 1
          /\ Cardinality({row.ID : row \in executions} \ RecordedIDs) <= 1
          /\ flow.pc \in {"startStep", "wait"} =>
                /\ DOMAIN containers \subseteq RecordedIDs
                /\ {row.ID : row \in executions} \subseteq RecordedIDs
          /\ Cardinality(DOMAIN containers) <= Len(CalledSteps)
          /\ \A c \in ComponentIDs :
                Cardinality({row \in executions : row.ComponentID = c})
                  <= Cardinality({i \in 1..Len(CalledSteps) :
                                     flow.specification.Steps[CalledSteps[i]] = c}))
    /\ [][/\ (flow.pc = "startStep" /\ flow'.pc = "awaitExecute") =>
                CurrentStep(flow) \notin Range(CalledSteps)
          /\ (flow.pc = "awaitExecute" /\ exec.pc = "returned" /\ exec.err # ErrNil
                /\ flow' # flow) =>
                flow'.pc = "returned"
          /\ (/\ flow.pc = "wait"
              /\ flow.current # ""
              /\ flow.stepExecutions[flow.current].ID \in DOMAIN containers
              /\ containers[flow.stepExecutions[flow.current].ID].state = "exited"
              /\ containers[flow.stepExecutions[flow.current].ID].exitCode # 0
              /\ flow' # flow) =>
                flow'.pc = "returned"
          /\ flow.pc = "returned" =>
                /\ flow' = flow
                /\ exec' = exec
                /\ executions' = executions
                /\ DOMAIN containers' = DOMAIN containers]_vars

\* flows.Execute has returned because the container of the second of two
\* steps exited with a code other than 0.
C32_Witness ==
    /\ flow.pc = "returned"
    /\ flow.err.kind = "exited with non-zero code"
    /\ Len(CalledSteps) = 2
    /\ Cardinality(DOMAIN containers) = 2
    /\ Cardinality(executions) = 2

\* flows.Execute has returned because the container of the second step
\* could not be started: the container and its row exist, the step is not
\* recorded.
C32_WitnessFailedStart ==
    /\ flow.pc = "returned"
    /\ flow.err.kind = "Error starting container"
    /\ Len(CalledSteps) = 2
    /\ Cardinality(DOMAIN flow.componentExecutions) = 1
    /\ Cardinality(DOMAIN containers) = 2
    /\ Cardinality(executions) = 2


\* A step of the components.Execute call in progress.
ExecuteStep ==
    \/ ExecuteSelectBuild
    \/ ExecuteConfigure
    \/ ExecuteContainerCreate
    \/ ExecuteInsertExecution
    \/ ExecuteContainerStart

\* C33: flows.Execute inspects containers only when components.Execute has
\* returned without error for every step of the current stage, so that
\* every step of the stage has a started container; while the steps of a
\* stage are being started no container is being waited on, and the call
\* for the next step and every step of that call can be taken whatever the
\* state of the containers already started.
C33_StageStartedBeforeWaiting ==
    /\ flow.pc = "wait" =>
          /\ DOMAIN flow.stepExecutions = StageSteps(flow.stageNum)
          /\ \A s \in StageSteps(flow.stageNum) : Started(flow.stepExecutions[s].ID)
    /\ flow.pc \in {"startStep", "awaitExecute"} =>
          /\ flow.current = ""
          /\ flow.pending = {}
    /\ flow.pc = "startStep" => ENABLED FlowStartStep
    /\ (flow.pc = "awaitExecute" /\ exec.pc \notin {"returned", "panic"}) => ENABLED ExecuteStep
    /\ (flow.pc = "awaitExecute" /\ exec.pc = "returned") => ENABLED FlowStepReturned

\* The second step of a stage has been started while the container of the
\* first is running, and inspection has begun.
C33_Witness ==
    /\ flow.pc = "wait"
    /\ Cardinality(StageSteps(flow.stageNum)) = 2
    /\ \A s \in StageSteps(flow.stageNum) :
          containers[flow.stepExecutions[s].ID].state = "running"

\* components.Execute is at work for the second step of a stage while the
\* container of the first step is running.
C33_WitnessStarting ==
    /\ flow.pc = "awaitExecute"
    /\ exec.pc = "start"
    /\ flow.started = 1
    /\ \E s \in DOMAIN flow.stepExecutions :
          containers[flow.stepExecutions[s].ID].state = "running"


\* C34: the join of a stage always completes: in every execution in which
\* Execute and its goroutines take the steps they can take and the running
\* containers exit, Execute returns.
C34_JoinCompletes == <>(flow.pc = "returned")


\* C35: every goroutine of the join that has called ContainerWait waits on
\* the container of the execution for which it was made, so that the
\* goroutines of a stage wait on different containers.
C35_WaitersWaitOnOwnContainer ==
    \A w \in DOMAIN flow.waiters :
        flow.waiters[w].pc # "ContainerWait" =>
            flow.waiters[w].waitingOn = flow.waiters[w].spawnedFor


\* C36: components.Execute is called, and a container or an Execution row
\* exists, only when flows.Execute has resolved a build for every step;
\* every call is made with the build resolved for its step and the id of
\* the flow; every Execution row has the flow's id and, for one of the steps
\* called, the component of the step and the build resolved for it, and the
\* execution recorded for a step is that row; the build resolved for a step
\* never changes, whatever builds are inserted afterwards.
C36_ResolvedBuildsExecuted ==
    /\ [](/\ (exec.pc # "idle" \/ containers # EmptyMap \/ executions # {}) =>
                /\ flow.unresolved = {}
                /\ DOMAIN flow.buildIDs = DOMAIN flow.specification.Steps
          /\ exec.pc # "idle" =>
                /\ exec.buildID = flow.buildIDs[CurrentStep(flow)]
                /\ exec.flowID = flow.flowID
          /\ \A row \in executions :
                /\ row.FlowID = flow.flowID
                /\ \E i \in 1..Len(CalledSteps) :
                      /\ row.ComponentID = flow.specification.Steps[CalledSteps[i]]
                      /\ row.BuildID = flow.buildIDs[CalledSteps[i]]
          /\ \A s \in DOMAIN flow.componentExecutions :
                /\ flow.componentExecutions[s] \in executions
                /\ flow.componentExecutions[s].FlowID = flow.flowID
                /\ flow.componentExecutions[s].ComponentID = flow.specification.Steps[s]
                /\ flow.componentExecutions[s].BuildID = flow.buildIDs[s])
    /\ [][\A s \in DOMAIN flow.buildIDs :
             /\ s \in DOMAIN flow'.buildIDs
             /\ flow'.buildIDs[s] = flow.buildIDs[s]]_vars

\* The row of a step records the build resolved for it although a more
\* recent build of its component was inserted before the step was started.
C36_Witness ==
    /\ \E s \in DOMAIN flow.componentExecutions :
          /\ flow.componentExecutions[s] \in executions
          /\ flow.componentExecutions[s].BuildID = flow.buildIDs[s]
          /\ \A row \in MostRecentBuilds(builds, flow.specification.Steps[s]) :
                row.ID # flow.buildIDs[s]
    /\ Cardinality(executions) = 2


\* C37: components.Execute never assigns past the end of the mount list of
\* the host configuration; when its loop over the mountpoints is reached and
\* more declared mountpoints have a binding than the bindings have distinct
\* targets, it returns the too-many-mounts error (or the error of a required
\* mountpoint without binding).
C37_NoMountBeyondHostConfiguration ==
    LET bound(mountpoint) == mountpoint.Mountpoint \in BoundTargets
        declared == SelectSeq(ExecSpecFile.Run.Mountpoints, bound)
    IN  /\ exec.pc = "panic" => exec.err # PanicMounts
        /\ (MountLoopReached /\ Len(declared) > Cardinality(BoundTargets)) =>
              /\ exec.pc = "returned"
              /\ exec.err \in {"Too many mounts in host configuration",
                               "No mount provided for required mountpoint"}


\* C38: the removal of components leaves the builds table as it was and the
\* build of a removed component is selected by its id as before; when
\* components.Execute is called for the build of a removed component it
\* gets no further than the selection of the component, returns the
\* component-not-found error, creates no container and inserts no
\* Execution row.
C38_BuildOfRemovedComponent ==
    /\ builds = {StoredBuild}
    /\ SelectBuildByID(builds, StoredBuild.ID) = [build |-> Scanned(StoredBuild), err |-> ErrNil]
    /\ (/\ exec.pc # "idle"
        /\ \A row \in components : row.ID # StoredBuild.ComponentID) =>
          /\ exec.pc \in {"selectBuild", "selectComponent", "returned"}
          /\ exec.pc = "returned" => exec.err = ErrComponentNotFound
          /\ containers = EmptyMap
          /\ executions = {}

\* components.Execute has returned for the build of the removed component.
C38_Witness ==
    /\ exec.pc = "returned"
    /\ exec.err = ErrComponentNotFound
    /\ \A row \in components : row.ID # StoredBuild.ComponentID
    /\ SelectBuildByID(builds, exec.buildID).err = ErrNil

\* The removal of the other component leaves the build executable.
C38_WitnessOther ==
    /\ exec.pc = "returned"
    /\ exec.err = ErrNil
    /\ {row.ID : row \in components} = {StoredBuild.ComponentID}


\* C39: for a validated flow specification CalculateStages returns, with no
\* error or with ErrCyclicDependency. Without a dependency cycle it returns
\* no error and a list of stages, one for every call that found steps, with
\* at least one step in every stage and all the steps in them together, so
\* that the recursive calls, the last of which finds no steps, are as many
\* as the stages and at most as many as the steps. It returns
\* ErrCyclicDependency only when some non-empty set of steps remains in
\* which every step has a dependency, and then the graph has a cycle.
C39_AcyclicStagesTerminate ==
    (pc = "calculated" /\ Validated(flowSpecification)) =>
        LET steps == DOMAIN flowSpecification.Steps
            edges == DependencyEdges(flowSpecification)
            cyclic == HasCycle(flowSpecification)
            staged == UNION {{result.stages[i][j] : j \in 1..Len(result.stages[i])} :
                                i \in 1..Len(result.stages)}
        IN  /\ result.err \in {ErrNil, ErrCyclicDependency}
            /\ ~cyclic =>
                  /\ result.err = ErrNil
                  /\ Len(result.stages) <= Cardinality(steps)
                  /\ \A i \in 1..Len(result.stages) : Len(result.stages[i]) >= 1
                  /\ staged = steps
            /\ result.err = ErrCyclicDependency =>
                  /\ cyclic
                  /\ \E remaining \in (SUBSET steps) \ {{}} :
                        \A s \in remaining : \E d \in remaining : <<s, d>> \in edges

\* A chain of three steps, the middle one listed with its dependency and the
\* first with an empty list: three stages of one step.
C39_Witness ==
    /\ pc = "calculated"
    /\ Validated(flowSpecification)
    /\ result.err = ErrNil
    /\ Cardinality(DOMAIN flowSpecification.Steps) = 3
    /\ Len(result.stages) = 3
    /\ \E s \in DOMAIN flowSpecification.Dependencies :
          Len(flowSpecification.Dependencies[s]) = 0

\* A validated specification rejected for a cycle that two of three steps
\* form.
C39_WitnessCycle ==
    /\ pc = "calculated"
    /\ Validated(flowSpecification)
    /\ result.err = ErrCyclicDependency
    /\ Cardinality(DOMAIN flowSpecification.Steps) = 3
    /\ \E s \in DOMAIN flowSpecification.Steps :
          s \notin DOMAIN flowSpecification.Dependencies

====
